---- MODULE Spec2Model ----
(***************************************************************************)
(* RectifierSolver: the /solve request pipeline (main.solve), the solver   *)
(* factory (create_solver) and the five solver classes, as a state machine.*)
(*                                                                         *)
(* Numbers.  The program computes in IEEE doubles; the model computes in   *)
(* integers with fixed units:                                              *)
(*   angles            degrees        (np.pi is 180)                       *)
(*   voltages          volts                                               *)
(*   currents, A, B    deci-amperes   (0.1 A)                              *)
(*   resistance        ohms;  Z  milli-ohms;  L  milli-henries             *)
(*   sin, cos, exp     scaled by 1000                                      *)
(*   power factor, form factor, ripple factor, efficiency: scaled by 1000  *)
(* NaN and Inf stand for the doubles nan and inf; every arithmetic helper  *)
(* propagates them the way IEEE arithmetic does and every comparison with  *)
(* NaN is false, as in Python.                                             *)
(***************************************************************************)
EXTENDS Integers, Sequences, FiniteSets, TLC

\* ------------------------------------------------------------------------
\* Floating-point values that are not numbers
\* ------------------------------------------------------------------------
NaN == 2000000001
Inf == 2000000000

IsNum(x) == x # NaN /\ x # Inf /\ x # -Inf

Abs(x) == IF x < 0 THEN -x ELSE x

\* Python's a > b, a < b, a >= b on doubles: false when either side is nan.
FGt(a, b) == a # NaN /\ b # NaN /\ a > b
FLt(a, b) == a # NaN /\ b # NaN /\ a < b
FGe(a, b) == a # NaN /\ b # NaN /\ a >= b

\* Python's builtin max(a, b): b when b > a, otherwise a (so max(0, nan) = 0).
PyMax(a, b) == IF FGt(b, a) THEN b ELSE a

\* Python's builtin min(a, b): b when b < a, otherwise a.
PyMin(a, b) == IF FLt(b, a) THEN b ELSE a

\* Integer division rounding toward zero (keeps the models of x/y odd in x).
QuoT(a, b) == IF (a >= 0) = (b > 0) THEN Abs(a) \div Abs(b) ELSE -(Abs(a) \div Abs(b))

\* a + b, a - b, a * b on doubles.
FAdd(a, b) ==
    IF a = NaN \/ b = NaN THEN NaN
    ELSE IF a = Inf THEN (IF b = -Inf THEN NaN ELSE Inf)
    ELSE IF a = -Inf THEN (IF b = Inf THEN NaN ELSE -Inf)
    ELSE IF b = Inf \/ b = -Inf THEN b
    ELSE a + b

FNeg(a) == IF a = NaN THEN NaN ELSE -a

FSub(a, b) == FAdd(a, FNeg(b))

\* a * b / s: the product of two scaled numbers, rescaled by s.
FMulDiv(a, b, s) ==
    IF a = NaN \/ b = NaN THEN NaN
    ELSE IF ~IsNum(a) \/ ~IsNum(b)
         THEN (IF a = 0 \/ b = 0 THEN NaN
               ELSE IF (a > 0) = (b > 0) THEN Inf ELSE -Inf)
    ELSE LET q == QuoT(a, s)
             r == a - q * s
         IN  q * b + QuoT(r * b, s)

\* numpy's k * a / b for np.float64 operands (k a scale factor):
\* x/0 is inf, -inf or nan with a RuntimeWarning, never an exception.
NpDiv(k, a, b) ==
    IF a = NaN \/ b = NaN THEN NaN
    ELSE IF b = 0 THEN (IF a = 0 THEN NaN ELSE IF a > 0 THEN Inf ELSE -Inf)
    ELSE IF ~IsNum(a) THEN (IF (a > 0) = (b > 0) THEN Inf ELSE -Inf)
    ELSE QuoT(k * a, b)

\* Integer square root by bisection on [lo, hi].
RECURSIVE SqrtIn(_, _, _)
SqrtIn(n, lo, hi) ==
    IF lo >= hi THEN lo
    ELSE LET mid == (lo + hi + 1) \div 2
         IN  IF mid * mid <= n THEN SqrtIn(n, mid, hi) ELSE SqrtIn(n, lo, mid - 1)

ISqrt(n) == SqrtIn(n, 0, 46340)

\* np.sqrt: nan for a negative argument (RuntimeWarning, no exception).
NpSqrt(x) ==
    IF x = NaN THEN NaN
    ELSE IF x = Inf THEN Inf
    ELSE IF x < 0 THEN NaN
    ELSE ISqrt(x)

\* ------------------------------------------------------------------------
\* Trigonometry and the exponential, in fixed point
\* ------------------------------------------------------------------------
\* 1000 * sin of 0, 15, ..., 90 degrees.
SinTab == <<0, 259, 500, 707, 866, 966, 1000>>

\* 1000 * sin(a) for 0 <= a <= 90, linear between the table's knots.
SinQ(a) ==
    LET k == a \div 15
        r == a % 15
    IN  IF r = 0 THEN SinTab[k + 1]
        ELSE SinTab[k + 1] + ((SinTab[k + 2] - SinTab[k + 1]) * r) \div 15

\* np.sin: 1000 * sin(a), a in degrees.
Sin(a) ==
    LET m == a % 360
    IN  IF m <= 90 THEN SinQ(m)
        ELSE IF m <= 180 THEN SinQ(180 - m)
        ELSE IF m <= 270 THEN -SinQ(m - 180)
        ELSE -SinQ(360 - m)

\* np.cos: 1000 * cos(a), a in degrees.
Cos(a) == Sin(a + 90)

\* np.arcsin of x/1000, in degrees: nan outside [-1, 1].
Arcsin(x) ==
    IF x = NaN \/ x > 1000 \/ x < -1000 THEN NaN
    ELSE CHOOSE a \in -90..90 : Sin(a) <= x /\ (a = 90 \/ Sin(a + 1) > x)

\* np.arctan of num/den (den > 0), in degrees.
Arctan(num, den) ==
    CHOOSE a \in -89..89 :
        /\ Sin(a) * den <= num * Cos(a)
        /\ (a = 89 \/ Sin(a + 1) * den > num * Cos(a + 1))

\* 1000 * exp(-k/2) for k = 0..14; exp(-x) is taken as 0 beyond x = 7.
ExpTab == <<1000, 607, 368, 223, 135, 82, 50, 30, 18, 11, 7, 4, 2, 2, 1>>

\* 1000 * exp(-x/1000) for x >= 0, linear between the table's knots.
ExpDecay(x) ==
    LET k == x \div 500
        r == x % 500
    IN  IF k >= 14 THEN 0
        ELSE ExpTab[k + 1] - ((ExpTab[k + 1] - ExpTab[k + 2]) * r) \div 500

\* np.exp of x/1000, scaled by 1000; exp(-inf) = 0, exp(inf) = inf.
NpExp(x) ==
    IF x = NaN THEN NaN
    ELSE IF x = Inf THEN Inf
    ELSE IF x = -Inf THEN 0
    ELSE IF x <= 0 THEN ExpDecay(-x)
    ELSE IF x >= 7000 THEN Inf
    ELSE QuoT(1000000, ExpDecay(x))

\* Degrees to milli-radians: a * pi / 180.
MilliRad(a) == QuoT(a * 3142, 180)

\* ------------------------------------------------------------------------
\* Requests: the JSON body of POST /solve
\* ------------------------------------------------------------------------
WaveTypes    == {"half", "half_wave", "full", "full_wave", "three_phase"}
ControlTypes == {"controlled", "uncontrolled", "semi"}
CircuitTypes == {"rle", "fwd"}
VmValues     == {100}
FValues      == {0, 50}
RValues      == {0, 10}
LValues      == {0, 32, 96}
VdcValues    == {-200, 0, 50, 150}
FiringValues == {-30, 0, 60}

NoSolver == [cls |-> "None"]
NoReq    == [wave_type |-> "none"]
NoResp   == [status |-> 0]
NoNlp    == [stage |-> "none", llm_calls |-> 0]
Unset    == "unset"

\* A Python bool held in an attribute that may be missing (Unset).
PyBool(b) == IF b THEN "True" ELSE "False"

VARIABLES
    pc,         \* where the request handler stands
    req,        \* the request being served
    solver,     \* the solver instance created for it (its fields)
    asinArgs,   \* the arguments np.arcsin has been called with
    fsolveLog,  \* the fsolve calls made so far: equation and outcome
    modePath,   \* the branch of solve() that computed Iavg, Irms, Vavg, Vrms
    response,   \* the HTTP response
    thread,     \* two server threads, each in its own call of main.solve
    heap,       \* the solver instances the two threads constructed
    nlp         \* the call of api_solve_with_nlp in hand: body, LLM calls, reply

vars == <<pc, req, solver, asinArgs, fsolveLog, modePath, response, thread, heap, nlp>>

\* What a single call of main.solve leaves alone: the other threads and the
\* natural-language route.
others == <<thread, heap, nlp>>

\* ------------------------------------------------------------------------
\* BaseRectifierSolver.__init__ and the subclasses' __init__
\* ------------------------------------------------------------------------
\* self.w = 2 * np.pi * f, rad/s.
AngularFrequency(f) == QuoT(6283 * f, 1000)

\* self.w * L, milli-ohms.
Reactance(f, L) == AngularFrequency(f) * L

\* self.Z = np.sqrt(R**2 + (self.w*L)**2), milli-ohms.
Impedance(f, R, L) == ISqrt(R * R * 1000000 + Reactance(f, L) * Reactance(f, L))

\* self.theta = np.arctan(self.w*L/R), degrees.
PhaseAngle(f, R, L) == Arctan(Reactance(f, L), 1000 * R)

\* self.tau = L/R, micro-seconds.
TimeConstant(R, L) == QuoT(1000 * L, R)

\* self.wTau = self.w * self.tau, scaled by 1000.
NormalizedTau(f, R, L) == QuoT(AngularFrequency(f) * TimeConstant(R, L), 1000)

\* The fields every solver has after BaseRectifierSolver.__init__.
BaseInit(cls, circuit_type, Vm, f, R, L, Vdc) ==
    [cls |-> cls, circuit_type |-> circuit_type,
     Vm |-> Vm, f |-> f, w |-> AngularFrequency(f), R |-> R, L |-> L, Vdc |-> Vdc,
     Z |-> Impedance(f, R, L), theta |-> PhaseAngle(f, R, L),
     tau |-> TimeConstant(R, L), wTau |-> NormalizedTau(f, R, L),
     alpha |-> 0, alphaIsNp |-> FALSE, beta |-> 0, A |-> 0,
     Iavg |-> 0, Irms |-> 0, Vavg |-> 0, Vrms |-> 0,
     power_factor |-> 0, form_factor |-> 0, ripple_factor |-> 0,
     efficiency |-> 0, power |-> 0,
     conducting_angle |-> 0, conducting_time |-> 0,
     specified_alpha |-> Unset, circuit_operates |-> Unset,
     is_continuous |-> Unset, constant_B |-> Unset]

\* ControlledHalfWaveSolver.__init__
ControlledHalfWaveInit(circuit_type, Vm, f, R, L, Vdc, firing_angle) ==
    [BaseInit("CHW", circuit_type, Vm, f, R, L, Vdc)
        EXCEPT !.specified_alpha = firing_angle]

\* ControlledFullWaveSolver.__init__
ControlledFullWaveInit(circuit_type, Vm, f, R, L, Vdc, firing_angle) ==
    [BaseInit("CFW", circuit_type, Vm, f, R, L, Vdc)
        EXCEPT !.specified_alpha = firing_angle, !.circuit_operates = "True"]

\* FreewheelingHalfWaveSolver.__init__: Vdc is replaced by 0.
FreewheelingInit(circuit_type, Vm, f, R, L) ==
    [BaseInit("FWHW", circuit_type, Vm, f, R, L, 0) EXCEPT !.constant_B = 0]

\* ------------------------------------------------------------------------
\* create_solver
\* ------------------------------------------------------------------------
\* The characters of the wave-type strings the model sends.
Chars(text) ==
    CASE text = "half"           -> <<"h", "a", "l", "f">>
      [] text = "half_wave"      -> <<"h", "a", "l", "f", "_", "w", "a", "v", "e">>
      [] text = "full"           -> <<"f", "u", "l", "l">>
      [] text = "full_wave"      -> <<"f", "u", "l", "l", "_", "w", "a", "v", "e">>
      [] text = "three_phase"    -> <<"t", "h", "r", "e", "e", "_", "p", "h", "a", "s", "e">>
      [] text = "half_wave_wave" -> <<"h", "a", "l", "f", "_", "w", "a", "v", "e",
                                      "_", "w", "a", "v", "e">>
      [] text = "_wavefull"      -> <<"_", "w", "a", "v", "e", "f", "u", "l", "l">>
      [] text = "HALF"           -> <<"H", "A", "L", "F">>
      [] text = "_wave"          -> <<"_", "w", "a", "v", "e">>

\* str.replace(old, ""): every non-overlapping occurrence of old, found from
\* the left, is removed.
RECURSIVE Replace(_, _)
Replace(text, old) ==
    IF Len(text) < Len(old) THEN text
    ELSE IF SubSeq(text, 1, Len(old)) = old
    THEN Replace(SubSeq(text, Len(old) + 1, Len(text)), old)
    ELSE <<Head(text)>> \o Replace(Tail(text), old)

\* wave_type.replace("_wave", "")
NormaliseWave(wave_type) == Replace(Chars(wave_type), Chars("_wave"))

\* The class create_solver instantiates, "None" when it returns None.
SolverClass(wave_type, control_type, is_fwd) ==
    LET wt == NormaliseWave(wave_type)
    IN  IF wt = Chars("half")
        THEN IF is_fwd /\ control_type = "uncontrolled" THEN "FWHW"
             ELSE IF control_type = "uncontrolled" THEN "UHW"
             ELSE IF control_type = "controlled" THEN "CHW"
             ELSE "None"
        ELSE IF wt = Chars("full")
        THEN IF control_type = "uncontrolled" THEN "UFW"
             ELSE IF control_type = "controlled" THEN "CFW"
             ELSE "None"
        ELSE "None"

\* The instance create_solver returns for request r (R # 0).
\* A factory that builds the controlled class of the wave type whatever the
\* control type, handing it the firing angle.
CreateSolverFiring(r) ==
    IF r.wave_type \in {"half", "half_wave"}
    THEN ControlledHalfWaveInit("rle", r.Vm, r.f, r.R, r.L, r.Vdc, r.firing_angle)
    ELSE IF r.wave_type \in {"full", "full_wave"}
    THEN ControlledFullWaveInit("rle", r.Vm, r.f, r.R, r.L, r.Vdc, r.firing_angle)
    ELSE NoSolver

\* A factory that hands the request's Vdc to the freewheeling class, whose
\* constructor passes it on to the base class.
CreateSolverKeepingVdc(r) ==
    LET is_fwd == (r.circuit_type = "fwd")
        ct     == IF is_fwd THEN "fwd" ELSE "rle"
        cls    == SolverClass(r.wave_type, r.control_type, is_fwd)
    IN  CASE cls = "FWHW" -> [BaseInit("FWHW", ct, r.Vm, r.f, r.R, r.L, r.Vdc)
                                 EXCEPT !.constant_B = 0]
          [] cls = "UHW"  -> BaseInit("UHW", ct, r.Vm, r.f, r.R, r.L, r.Vdc)
          [] cls = "CHW"  -> ControlledHalfWaveInit(ct, r.Vm, r.f, r.R, r.L, r.Vdc, r.firing_angle)
          [] cls = "UFW"  -> BaseInit("UFW", ct, r.Vm, r.f, r.R, r.L, r.Vdc)
          [] cls = "CFW"  -> ControlledFullWaveInit(ct, r.Vm, r.f, r.R, r.L, r.Vdc, r.firing_angle)
          [] OTHER -> NoSolver

CreateSolverFor(r) ==
    LET is_fwd == (r.circuit_type = "fwd")
        ct     == IF is_fwd THEN "fwd" ELSE "rle"
        cls    == SolverClass(r.wave_type, r.control_type, is_fwd)
    IN  CASE cls = "FWHW" -> FreewheelingInit(ct, r.Vm, r.f, r.R, r.L)
          [] cls = "UHW"  -> BaseInit("UHW", ct, r.Vm, r.f, r.R, r.L, r.Vdc)
          [] cls = "CHW"  -> ControlledHalfWaveInit(ct, r.Vm, r.f, r.R, r.L, r.Vdc, r.firing_angle)
          [] cls = "UFW"  -> BaseInit("UFW", ct, r.Vm, r.f, r.R, r.L, r.Vdc)
          [] cls = "CFW"  -> ControlledFullWaveInit(ct, r.Vm, r.f, r.R, r.L, r.Vdc, r.firing_angle)
          [] OTHER -> NoSolver

\* ------------------------------------------------------------------------
\* main.solve: the request is read
\* ------------------------------------------------------------------------
Receive ==
    /\ pc = "idle"
    /\ \E wt \in WaveTypes, ct \in ControlTypes, circ \in CircuitTypes,
          Vm \in VmValues, f \in FValues, R \in RValues, L \in LValues,
          Vdc \in VdcValues, fa \in FiringValues :
          req' = [wave_type |-> wt, control_type |-> ct, circuit_type |-> circ,
                  Vm |-> Vm, f |-> f, R |-> R, L |-> L, Vdc |-> Vdc,
                  firing_angle |-> fa]
    /\ pc' = "create"
    /\ UNCHANGED <<solver, asinArgs, fsolveLog, modePath, response>>
    /\ UNCHANGED others

\* main.solve calls create_solver.  A class is chosen; its __init__ runs and
\* raises ZeroDivisionError at self.w*L/R when R = 0 (after self.Z was set);
\* with no class chosen the handler answers 400.
CreateSolver ==
    /\ pc = "create"
    /\ LET cls == SolverClass(req.wave_type, req.control_type, req.circuit_type = "fwd")
       IN  IF cls = "None"
           THEN /\ solver' = NoSolver
                /\ response' = [status |-> 400, error |-> "Circuit type not implemented yet."]
                /\ pc' = "done"
           ELSE IF req.R = 0
           THEN /\ solver' = [cls |-> cls, Vm |-> req.Vm, f |-> req.f,
                              w |-> AngularFrequency(req.f), R |-> req.R, L |-> req.L,
                              Vdc |-> IF cls = "FWHW" THEN 0 ELSE req.Vdc,
                              Z |-> Impedance(req.f, req.R, req.L)]
                /\ response' = [status |-> 500, error |-> "ZeroDivisionError"]
                /\ pc' = "raised"
           ELSE /\ solver' = CreateSolverFor(req)
                /\ response' = response
                /\ pc' = "turn_on"
    /\ UNCHANGED <<req, asinArgs, fsolveLog, modePath>>
    /\ UNCHANGED others

\* ------------------------------------------------------------------------
\* solve(): the turn-on angle
\* ------------------------------------------------------------------------
HalfWave(cls) == cls \in {"UHW", "CHW", "FWHW"}
Controlled(cls) == cls \in {"CHW", "CFW"}

\* The topology's period in the quadratures and in the wrap of beta:
\* 2*np.pi in the half-wave classes, np.pi in the full-wave classes.
Period(cls) == IF HalfWave(cls) THEN 360 ELSE 180

\* min(1.0, self.Vdc/self.Vm): what np.arcsin is called with (scaled by 1000).
ArcsinArgument(s) == PyMin(1000, QuoT(1000 * s.Vdc, s.Vm))

\* alpha_min = max(0, np.arcsin(min(1.0, self.Vdc/self.Vm)))
AlphaMin(s) == PyMax(0, Arcsin(ArcsinArgument(s)))

\* max(0, x) hands back the np.float64 x only when x > 0, else the int 0.
AlphaMinIsNp(s) == FGt(Arcsin(ArcsinArgument(s)), 0)

\* The not-operating branch of ControlledFullWaveSolver.solve.
NonOperating(s) ==
    [s EXCEPT !.circuit_operates = "False",
              !.alpha = s.specified_alpha, !.beta = s.specified_alpha,
              !.A = 0, !.conducting_angle = 0, !.conducting_time = 0,
              !.Iavg = 0, !.Irms = 0, !.Vavg = s.Vdc, !.Vrms = s.Vdc,
              !.power = 0, !.power_factor = 0, !.form_factor = 1000,
              !.ripple_factor = 0, !.efficiency = 0]

\* The first statements of each class's solve(): alpha is set.
TurnOnOf(s) ==
    CASE s.cls \in {"UHW", "UFW"} ->
            [s EXCEPT !.alpha = AlphaMin(s), !.alphaIsNp = AlphaMinIsNp(s)]
      [] s.cls = "CHW" ->
            [s EXCEPT !.alpha = PyMax(s.specified_alpha, AlphaMin(s)),
                      !.alphaIsNp = FGt(AlphaMin(s), s.specified_alpha) /\ AlphaMinIsNp(s)]
      [] s.cls = "CFW" ->
            IF s.specified_alpha < AlphaMin(s)
            THEN NonOperating(s)
            ELSE [s EXCEPT !.circuit_operates = "True", !.alpha = s.specified_alpha]
      [] s.cls = "FWHW" -> [s EXCEPT !.alpha = 0]

TurnOn ==
    /\ pc = "turn_on"
    /\ solver' = TurnOnOf(solver)
    /\ asinArgs' = IF solver.cls = "FWHW" THEN asinArgs
                   ELSE Append(asinArgs, ArcsinArgument(solver))
    /\ pc' = IF solver.cls = "FWHW" THEN "fw_solve"
             ELSE IF solver.cls = "CFW" /\ solver'.circuit_operates = "False" THEN "results"
             ELSE "find_A"
    /\ modePath' = IF pc' = "results" THEN "non_operating" ELSE modePath
    /\ UNCHANGED <<req, fsolveLog, response>>
    /\ UNCHANGED others

\* ------------------------------------------------------------------------
\* solve(): the transient coefficient A
\* ------------------------------------------------------------------------
\* (self.Vm/self.Z) * np.sin(x - self.theta), deci-amperes.
Forced(s, x) == QuoT(10 * s.Vm * Sin(x - s.theta), s.Z)

\* self.Vdc/self.R, deci-amperes.
Offset(s) == QuoT(10 * s.Vdc, s.R)

\* np.exp(-x/self.wTau) for an np.float64 or array x (degrees), scaled by 1000.
Decay(s, x) == NpExp(NpDiv(1000, -MilliRad(x), s.wTau))

\* -self.alpha/self.wTau raises ZeroDivisionError when wTau is 0.0 and alpha
\* is a Python number; an np.float64 alpha gives -inf and a RuntimeWarning.
ARaises(s) == s.cls # "CFW" /\ s.wTau = 0 /\ ~s.alphaIsNp

\* The coefficient of A in equation_for_A (scaled by 1000).
ACoefficient(s) == IF s.cls = "CFW" THEN 1000 ELSE Decay(s, s.alpha)

\* fsolve(equation_for_A, [0.0])[0]: the root of the linear equation, or the
\* initial guess when A's coefficient is 0 and no step improves the residual.
SolveForA(s) ==
    IF ACoefficient(s) = 0 THEN 0
    ELSE QuoT(-1000 * (Forced(s, s.alpha) - Offset(s)), ACoefficient(s))

FindA ==
    /\ pc = "find_A"
    /\ IF ARaises(solver)
       THEN /\ fsolveLog' = Append(fsolveLog, [eq |-> "A", status |-> "raised"])
            /\ response' = [status |-> 500, error |-> "ZeroDivisionError"]
            /\ pc' = "raised"
            /\ solver' = solver
       ELSE /\ fsolveLog' = Append(fsolveLog,
                   [eq |-> "A",
                    status |-> IF ACoefficient(solver) = 0 THEN "stalled" ELSE "converged"])
            /\ solver' = [solver EXCEPT !.A = SolveForA(solver)]
            /\ response' = response
            /\ pc' = "find_beta"
    /\ UNCHANGED <<req, asinArgs, modePath>>
    /\ UNCHANGED others

\* ------------------------------------------------------------------------
\* solve(): the turn-off angle beta
\* ------------------------------------------------------------------------
RootBelow == 7
RootAbove == 14

\* The values fsolve may hand back, degrees.
RootGrid == {30 * k : k \in -RootBelow..RootAbove}

\* A * np.exp(...) at angle x: the transient term of the current.
Transient(s, x) ==
    IF s.cls = "CFW"
    THEN FMulDiv(s.A, Decay(s, x - s.alpha), 1000)
    ELSE FMulDiv(s.A, Decay(s, x), 1000)

\* equation_for_beta(x)
EquationForBeta(s, x) == FAdd(Forced(s, x) - Offset(s), Transient(s, x))

\* x is the grid value nearest to a zero of equation_for_beta.
IsRoot(s, x) ==
    LET lo == EquationForBeta(s, x - 15)
        hi == EquationForBeta(s, x + 15)
    IN  /\ IsNum(lo) /\ IsNum(hi)
        /\ (lo <= 0 /\ hi >= 0) \/ (lo >= 0 /\ hi <= 0)

\* What a call of fsolve(equation_for_beta, ...) can do: return a root
\* (ier = 1), return its last iterate with a RuntimeWarning (ier # 1), or raise.
FsolveOutcomes(s) ==
    {[status |-> "converged", x |-> x] : x \in {y \in RootGrid : IsRoot(s, y)}}
    \cup {[status |-> "stalled", x |-> x] : x \in RootGrid}
    \cup {[status |-> "raised", x |-> 0]}

\* A wrap that adds 2*pi in every class.
BetaAfterTwoPi(s, o) == IF o.x < s.alpha THEN o.x + 360 ELSE o.x

\* self.beta after the fsolve call, the except clause and the wrap.
BetaAfter(s, o) ==
    CASE s.cls \in {"UHW", "CHW"} ->
            IF o.x < s.alpha THEN o.x + 360 ELSE o.x
      [] s.cls = "CFW" ->
            IF o.status = "raised" THEN 180
            ELSE IF o.x < s.alpha THEN o.x + 180 ELSE o.x
      [] s.cls = "UFW" ->
            LET b == IF o.status = "raised" THEN s.alpha ELSE o.x
            IN  IF b < s.alpha THEN b + 180 ELSE b

FindBeta ==
    /\ pc = "find_beta"
    /\ \E o \in FsolveOutcomes(solver) :
          /\ fsolveLog' = Append(fsolveLog, [eq |-> "beta", status |-> o.status,
                                              x |-> o.x])
          /\ IF o.status = "raised" /\ solver.cls \in {"UHW", "CHW"}
             THEN /\ solver' = solver
                  /\ response' = [status |-> 500, error |-> "fsolve"]
                  /\ pc' = "raised"
             ELSE /\ solver' = [solver EXCEPT !.beta = BetaAfter(solver, o)]
                  /\ response' = response
                  /\ pc' = "classify"
    /\ UNCHANGED <<req, asinArgs, modePath>>
    /\ UNCHANGED others

\* ------------------------------------------------------------------------
\* solve(): conduction mode, conducting angle and time
\* ------------------------------------------------------------------------
\* The full-wave test beta > pi + alpha applied to every class.
IsContinuousAnyClass(s) == PyBool(s.beta > 180 + s.alpha)

\* self.is_continuous, set by the full-wave classes only.
IsContinuous(s) ==
    CASE s.cls = "CFW" -> PyBool(s.beta > 180 + s.alpha)
      [] s.cls = "UFW" -> PyBool(s.beta > 180)
      [] OTHER -> Unset

\* 1000 * self.conducting_angle / self.w, micro-seconds.
ConductingTime(s, angle) == NpDiv(1000, MilliRad(angle), s.w)

\* beta and alpha are both Python floats after the except clause of the
\* controlled full-wave class: dividing by w = 0.0 then raises.
TimeRaises(s, log) ==
    /\ s.cls = "CFW" /\ s.w = 0
    /\ log[Len(log)].status = "raised"

\* self.is_continuous, self.conducting_angle and self.conducting_time.
ClassifyOf(s) ==
    [s EXCEPT !.is_continuous = IsContinuous(s),
              !.conducting_angle = s.beta - s.alpha,
              !.conducting_time = ConductingTime(s, s.beta - s.alpha)]

Classify ==
    /\ pc = "classify"
    /\ IF TimeRaises(solver, fsolveLog)
       THEN /\ solver' = [solver EXCEPT !.is_continuous = IsContinuous(solver),
                                        !.conducting_angle = solver.beta - solver.alpha]
            /\ response' = [status |-> 500, error |-> "ZeroDivisionError"]
            /\ pc' = "raised"
       ELSE /\ solver' = ClassifyOf(solver)
            /\ response' = response
            /\ pc' = "metrics"
    /\ UNCHANGED <<req, asinArgs, fsolveLog, modePath>>
    /\ UNCHANGED others

\* ------------------------------------------------------------------------
\* Quadrature
\* ------------------------------------------------------------------------
\* num_points: the model integrates over NumPoints samples per region.
NumPoints == 7

\* np.linspace(a, b, NumPoints)
Linspace(a, b) == [k \in 1..NumPoints |-> a + QuoT((k - 1) * (b - a), NumPoints - 1)]

\* np.concatenate([x, y, z])
Concatenate(x, y, z) == x \o y \o z

RECURSIVE TrapzFrom(_, _, _)
TrapzFrom(y, x, k) ==
    IF k >= Len(x) THEN 0
    ELSE IF y[k] = NaN \/ y[k + 1] = NaN THEN NaN
    ELSE FAdd(QuoT((x[k + 1] - x[k]) * (y[k + 1] + y[k]), 2), TrapzFrom(y, x, k + 1))

\* np.trapz(y, x)
Trapz(y, x) == TrapzFrom(y, x, 1)

\* y**2, element by element
Squared(y) == [k \in 1..Len(y) |-> IF y[k] = NaN THEN NaN ELSE y[k] * y[k]]

\* np.mean(y)
RECURSIVE SumFrom(_, _)
SumFrom(y, k) == IF k > Len(y) THEN 0 ELSE FAdd(y[k], SumFrom(y, k + 1))

Mean(y) == LET t == SumFrom(y, 1) IN IF t = NaN THEN NaN ELSE QuoT(t, Len(y))

\* integral / period on doubles
Over(t, period) == IF t = NaN THEN NaN ELSE QuoT(t, period)

\* ------------------------------------------------------------------------
\* current_function
\* ------------------------------------------------------------------------
\* The even harmonics 2, 4, ..., 2 * n_harmonics.
NHarmonics == 10
Harmonics == {2 * k : k \in 1..NHarmonics}

\* Vn = 2 * Vm / np.pi * (1/(n-1) - 1/(n+1)), volts.
HarmonicVoltage(s, n) == QuoT(4000 * s.Vm, 3142 * (n * n - 1))

\* Zn = np.sqrt(R**2 + (n*w*L)**2), ohms.
HarmonicImpedance(s, n) ==
    LET x == QuoT(n * s.w * s.L, 1000) IN ISqrt(s.R * s.R + x * x)

\* In = Vn / Zn, deci-amperes.
HarmonicCurrent(s, n) == QuoT(10 * HarmonicVoltage(s, n), HarmonicImpedance(s, n))

\* theta_n = np.arctan(n*w*L/R), degrees.
HarmonicPhase(s, n) == Arctan(n * s.w * s.L, 1000 * s.R)

RECURSIVE FourierFrom(_, _, _)
FourierFrom(s, wt, n) ==
    IF n > 2 * NHarmonics THEN 0
    ELSE QuoT(HarmonicCurrent(s, n) * Cos(n * wt + 180 - HarmonicPhase(s, n)), 1000)
         + FourierFrom(s, wt, n + 2)

\* The discontinuous-mode expression of each class's current_function.
TransientCurrent(s, wt) == FAdd(Forced(s, wt) - Offset(s), Transient(s, wt))

\* current_function(wt) of the class of s, deci-amperes.
CurrentFunction(s, wt) ==
    CASE s.cls \in {"UHW", "CHW"} -> TransientCurrent(s, wt)
      [] s.cls = "CFW" ->
            IF s.is_continuous = "True"
            THEN FAdd(s.Iavg, FourierFrom(s, wt, 2))
            ELSE TransientCurrent(s, wt)
      [] s.cls = "UFW" ->
            IF s.is_continuous = "True"
            THEN FAdd(s.Iavg, FourierFrom(s, wt, 2))
            ELSE IF wt >= s.alpha /\ wt <= s.beta THEN TransientCurrent(s, wt)
            ELSE 0
      [] s.cls = "FWHW" ->
            IF wt < 180
            THEN FAdd(Forced(s, wt), FMulDiv(s.A, Decay(s, wt), 1000))
            ELSE FMulDiv(s.constant_B, Decay(s, wt - 180), 1000)

\* ------------------------------------------------------------------------
\* solve(): average and RMS current and voltage
\* ------------------------------------------------------------------------
\* The discontinuous branch: quadrature over [alpha, beta] and over the
\* three voltage regions [0, alpha], [alpha, beta], [beta, period].
DiscontinuousOf(s) ==
    LET P  == Period(s.cls)
        t  == Linspace(s.alpha, s.beta)
        i  == [k \in 1..NumPoints |-> CurrentFunction(s, t[k])]
        t1 == Linspace(0, s.alpha)
        t3 == Linspace(s.beta, P)
        v1 == [k \in 1..NumPoints |-> s.Vdc]
        v2 == [k \in 1..NumPoints |-> QuoT(s.Vm * Sin(t[k]), 1000)]
        ta == Concatenate(t1, t, t3)
        va == Concatenate(v1, v2, v1)
    IN  [s EXCEPT !.Iavg = Over(Trapz(i, t), P),
                  !.Irms = NpSqrt(Over(Trapz(Squared(i), t), P)),
                  !.Vavg = Over(Trapz(va, ta), P),
                  !.Vrms = NpSqrt(Over(Trapz(Squared(va), ta), P))]

RECURSIVE HarmonicPower(_, _, _)
\* The sum over the harmonics of In**2 / 2 (currents) or Vn**2 / 2 (voltages).
HarmonicPower(s, n, ofCurrent) ==
    IF n > 2 * NHarmonics THEN 0
    ELSE LET a == IF ofCurrent THEN HarmonicCurrent(s, n) ELSE HarmonicVoltage(s, n)
         IN  QuoT(a * a, 2) + HarmonicPower(s, n + 2, ofCurrent)

\* The continuous branch: closed-form averages and the harmonic RMS values.
\* A continuous branch that takes 2 Vm / pi whatever the class.
ContinuousUncontrolledOnly(s) ==
    LET Vavg == QuoT(2000 * s.Vm, 3142)
        Iavg == QuoT(10 * (Vavg - s.Vdc), s.R)
    IN  [s EXCEPT !.Vavg = Vavg, !.Iavg = Iavg,
                  !.Irms = NpSqrt(Iavg * Iavg + HarmonicPower(s, 2, TRUE)),
                  !.Vrms = NpSqrt(Vavg * Vavg + HarmonicPower(s, 2, FALSE))]

ContinuousOf(s) ==
    LET Vavg == IF s.cls = "CFW"
                THEN QuoT(2 * s.Vm * Cos(s.alpha), 3142)
                ELSE QuoT(2000 * s.Vm, 3142)
        Iavg == QuoT(10 * (Vavg - s.Vdc), s.R)
    IN  [s EXCEPT !.Vavg = Vavg, !.Iavg = Iavg,
                  !.Irms = NpSqrt(Iavg * Iavg + HarmonicPower(s, 2, TRUE)),
                  !.Vrms = NpSqrt(Vavg * Vavg + HarmonicPower(s, 2, FALSE))]

DiscontinuousMetrics ==
    /\ pc = "metrics"
    /\ solver.is_continuous # "True"
    /\ solver' = DiscontinuousOf(solver)
    /\ modePath' = "quadrature"
    /\ pc' = "performance"
    /\ UNCHANGED <<req, asinArgs, fsolveLog, response>>
    /\ UNCHANGED others

ContinuousMetrics ==
    /\ pc = "metrics"
    /\ solver.is_continuous = "True"
    /\ solver' = ContinuousOf(solver)
    /\ modePath' = "harmonic"
    /\ pc' = "performance"
    /\ UNCHANGED <<req, asinArgs, fsolveLog, response>>
    /\ UNCHANGED others

\* ------------------------------------------------------------------------
\* FreewheelingHalfWaveSolver.solve after alpha = 0
\* ------------------------------------------------------------------------
\* np.exp(-(2*np.pi - np.pi)/self.wTau) divides Python floats: it raises
\* ZeroDivisionError inside fsolve when wTau = 0.0.
FreewheelRaises(s) == s.wTau = 0

\* The solution of the two linear conditions (periodicity, continuity):
\* A = B = (Vm/Z) * sin(theta) / (1 - exp(-pi/wTau)), deci-amperes.
FreewheelRoot(s) == QuoT(-1000 * Forced(s, 0), 1000 - Decay(s, 180))

\* What fsolve(equations, [0.1, 0.1]) can do: the root, its last iterate
\* (here the initial guess) with a RuntimeWarning, or an exception.
FreewheelOutcomes(s) ==
    {[status |-> "converged", A |-> FreewheelRoot(s), B |-> FreewheelRoot(s)],
     [status |-> "stalled", A |-> 1, B |-> 1],
     [status |-> "raised", A |-> 0, B |-> 0]}

\* The same statements with "self.beta = np.pi" left out: beta keeps the
\* value __init__ gave it.
FreewheelAnglesBetaUnset(s, o) ==
    [s EXCEPT !.A = o.A, !.constant_B = o.B,
              !.conducting_angle = s.beta - s.alpha,
              !.conducting_time = ConductingTime(s, s.beta - s.alpha)]

\* self.A, self.constant_B, self.beta = np.pi, the conducting angle and time.
FreewheelAngles(s, o) ==
    [s EXCEPT !.A = o.A, !.constant_B = o.B, !.beta = 180,
              !.conducting_angle = 180 - s.alpha,
              !.conducting_time = ConductingTime(s, 180 - s.alpha)]

\* The statements of solve() from self.A = A to the RMS voltage.
FreewheelOf(s, o) ==
    LET s1 == FreewheelAngles(s, o)
        wt == Linspace(0, 360)
        i  == [k \in 1..NumPoints |-> CurrentFunction(s1, wt[k])]
        v  == [k \in 1..NumPoints |->
                 IF wt[k] < 180 THEN QuoT(s.Vm * Sin(wt[k]), 1000) ELSE 0]
    IN  [s1 EXCEPT !.Iavg = Mean(i), !.Irms = NpSqrt(Mean(Squared(i))),
                   !.Vavg = Mean(v), !.Vrms = NpSqrt(Mean(Squared(v)))]

FreewheelSolve ==
    /\ pc = "fw_solve"
    /\ IF FreewheelRaises(solver)
       THEN /\ fsolveLog' = Append(fsolveLog, [eq |-> "AB", status |-> "raised"])
            /\ solver' = solver
            /\ response' = [status |-> 500, error |-> "ZeroDivisionError"]
            /\ pc' = "raised"
       ELSE \E o \in FreewheelOutcomes(solver) :
            /\ fsolveLog' = Append(fsolveLog, [eq |-> "AB", status |-> o.status])
            /\ IF o.status = "raised"
               THEN /\ solver' = solver
                    /\ response' = [status |-> 500, error |-> "fsolve"]
                    /\ pc' = "raised"
               ELSE /\ solver' = FreewheelOf(solver, o)
                    /\ response' = response
                    /\ pc' = "performance"
    /\ modePath' = IF pc' = "performance" THEN "freewheel" ELSE modePath
    /\ UNCHANGED <<req, asinArgs>>
    /\ UNCHANGED others

\* ------------------------------------------------------------------------
\* solve(): performance metrics
\* ------------------------------------------------------------------------
\* Vs_rms = self.Vm / np.sqrt(2), volts.
SourceRms(s) == QuoT(1000 * s.Vm, 1414)

\* a * b on doubles.
FMul(a, b) == FMulDiv(a, b, 1)

\* self.power, centi-watts: Vdc*Iavg + Irms**2 * R (Irms**2 * R when freewheeling).
PowerOf(s) ==
    IF s.cls = "FWHW" THEN FMul(FMul(s.Irms, s.Irms), s.R)
    ELSE FAdd(FMul(10 * s.Vdc, s.Iavg), FMul(FMul(s.Irms, s.Irms), s.R))

\* self.power / (Vs_rms * self.Irms) if (Vs_rms * self.Irms) > 0 else 0
PowerFactorOf(s, power) ==
    LET den == FMul(SourceRms(s), s.Irms)
    IN  IF FGt(den, 0) THEN FMulDiv(power, 100, den) ELSE 0

\* self.Vrms / self.Vavg with the test "if self.Vavg > 0" left out.
FormFactorUnguarded(s) == NpDiv(1000, s.Vrms, s.Vavg)

\* self.Vrms / self.Vavg if self.Vavg > 0 else 0
FormFactorOf(s) == IF FGt(s.Vavg, 0) THEN NpDiv(1000, s.Vrms, s.Vavg) ELSE 0

\* np.sqrt(ff**2 - 1) for a form factor ff scaled by 1000.
RippleRoot(ff) ==
    IF ~IsNum(ff) THEN ff
    ELSE IF Abs(ff) <= 46000 THEN NpSqrt(ff * ff - 1000000)
    ELSE 10 * NpSqrt(QuoT(ff, 10) * QuoT(ff, 10) - 10000)

\* np.sqrt(self.form_factor**2 - 1) if self.Vavg > 0 else 0
RippleFactorOf(s, ff) == IF FGt(s.Vavg, 0) THEN RippleRoot(ff) ELSE 0

\* Pdc / Prms if Prms > 0 else 0
EfficiencyOf(s) ==
    LET Pdc  == FMul(s.Vavg, s.Iavg)
        Prms == FMul(s.Vrms, s.Irms)
    IN  IF FGt(Prms, 0) THEN FMulDiv(Pdc, 1000, Prms) ELSE 0

PerformanceOf(s) ==
    [s EXCEPT !.power = PowerOf(s),
              !.power_factor = PowerFactorOf(s, PowerOf(s)),
              !.form_factor = FormFactorOf(s),
              !.ripple_factor = RippleFactorOf(s, FormFactorOf(s)),
              !.efficiency = EfficiencyOf(s)]

Performance ==
    /\ pc = "performance"
    /\ solver' = PerformanceOf(solver)
    /\ pc' = "results"
    /\ UNCHANGED <<req, asinArgs, fsolveLog, modePath, response>>
    /\ UNCHANGED others

\* ------------------------------------------------------------------------
\* generate_waveforms
\* ------------------------------------------------------------------------
\* The number of samples of np.linspace(0, 2*np.pi, 1000).
Resolution == 1000

\* How many of the modelled samples are kept: every 111th of the 1000.
WaveSamples == 10

\* wt, degrees.
WaveAngles ==
    SubSeq([k \in 1..WaveSamples |-> QuoT((k - 1) * 360, WaveSamples - 1)], 1, WaveSamples)

\* A numpy array: the values of y, computed once and stored.
Array(y) == SubSeq(y, 1, WaveSamples)

\* vs = self.Vm * np.sin(wt), volts.
SourceVoltage(s) ==
    Array([k \in 1..WaveSamples |-> QuoT(s.Vm * Sin(WaveAngles[k]), 1000)])

\* (wt >= a) & (wt <= b) at one sample.
Within(x, a, b) == FGe(x, a) /\ FGe(b, x)

\* np.zeros_like(wt)
Zeros == [k \in 1..WaveSamples |-> 0]

\* The number of the 1000 sample angles 2*pi*k/999 lying in [a, b] degrees.
SamplesWithin(a, b) ==
    LET lo == IF a <= 0 THEN 0 ELSE (a * (Resolution - 1) + 359) \div 360
        hi == IF b >= 360 THEN Resolution - 1 ELSE (b * (Resolution - 1)) \div 360
    IN  IF a = NaN \/ b = NaN \/ hi < lo THEN 0 ELSE hi - lo + 1

\* np.gradient raises ValueError on an array of one element: the base class
\* differentiates only the samples of the conducting mask.
GradientRaises(s) ==
    s.cls \in {"UHW", "CHW"} /\ SamplesWithin(s.alpha, s.beta) = 1

\* np.gradient(y, wt) at sample k of the samples selected by mask: central
\* difference inside, one-sided at the two ends (dA per degree as dy, dx).
GradientAt(y, mask, k) ==
    LET lo == IF k > 1 /\ mask[k - 1] THEN k - 1 ELSE k
        hi == IF k < WaveSamples /\ mask[k + 1] THEN k + 1 ELSE k
    IN  [dy |-> FSub(y[hi], y[lo]), dx |-> WaveAngles[hi] - WaveAngles[lo]]

\* self.L * di_dt * self.w, volts.
InductorVoltage(s, y, mask) ==
    [k \in 1..WaveSamples |->
        IF ~mask[k] THEN 0
        ELSE LET g == GradientAt(y, mask, k)
             IN  IF g.dx = 0 THEN 0
                 ELSE FMulDiv(FMulDiv(g.dy, s.L * s.w, 3142), 18, g.dx)]

\* vr = i_out * self.R, volts.
ResistorVoltage(s, i) == [k \in 1..WaveSamples |-> FMulDiv(i[k], s.R, 10)]

\* np.any(i_out): some sample is not 0.0 (nan counts as true).
AnySample(i) == \E k \in 1..WaveSamples : i[k] # 0

AllSamples == [k \in 1..WaveSamples |-> TRUE]

\* Vn/Zn and theta_n of each even harmonic: the loop of current_function
\* computes them once for the whole array wt.
HarmonicTable(s) ==
    SubSeq([j \in 1..NHarmonics |->
               [In |-> HarmonicCurrent(s, 2 * j), theta_n |-> HarmonicPhase(s, 2 * j)]],
           1, NHarmonics)

RECURSIVE FourierWith(_, _, _)
FourierWith(tab, wt, j) ==
    IF j > NHarmonics THEN 0
    ELSE QuoT(tab[j].In * Cos(2 * j * wt + 180 - tab[j].theta_n), 1000)
         + FourierWith(tab, wt, j + 1)

\* self.current_function(wt) on the whole array, continuous branch.
ContinuousCurrent(s) ==
    LET tab == HarmonicTable(s)
    IN  [k \in 1..WaveSamples |-> FAdd(s.Iavg, FourierWith(tab, WaveAngles[k], 1))]

\* BaseRectifierSolver.generate_waveforms
BaseWaveforms(s) ==
    LET wt == WaveAngles
        vs == SourceVoltage(s)
        conducting == [k \in 1..WaveSamples |-> Within(wt[k], s.alpha, s.beta)]
        vo == [k \in 1..WaveSamples |->
                 IF FGt(wt[k], s.beta) THEN s.Vdc
                 ELSE IF conducting[k] THEN vs[k]
                 ELSE IF FLt(wt[k], s.alpha) THEN s.Vdc
                 ELSE 0]
        i_out == Array([k \in 1..WaveSamples |->
                    IF conducting[k] THEN CurrentFunction(s, wt[k]) ELSE 0])
    IN  [time |-> wt, vs |-> vs, vo |-> vo,
         vd |-> [k \in 1..WaveSamples |-> vs[k] - vo[k]],
         i_out |-> i_out,
         vl |-> InductorVoltage(s, i_out, conducting),
         vr |-> ResistorVoltage(s, i_out)]

\* The "if not self.circuit_operates" branch of
\* ControlledFullWaveSolver.generate_waveforms.
FlatWaveforms(s) ==
    LET vs == SourceVoltage(s)
    IN  [time |-> WaveAngles, vs |-> vs,
         vo |-> [k \in 1..WaveSamples |-> s.Vdc],
         vd |-> [k \in 1..WaveSamples |-> vs[k] - s.Vdc],
         i_out |-> Zeros, vl |-> Zeros, vr |-> Zeros]

\* mask1 = (wt >= 0) & (wt < np.pi); mask2 = (wt >= np.pi) & (wt <= 2*np.pi)
Mask1(k) == WaveAngles[k] >= 0 /\ WaveAngles[k] < 180
Mask2(k) == WaveAngles[k] >= 180 /\ WaveAngles[k] <= 360

\* The series both full-wave classes return, from the per-sample current,
\* output voltage, diode-pair masks and diode voltages.
FullWaveSeries(s, vo, current, d14, d23, vd1, vd2, vd3, vd4) ==
    LET i_out == Array(current)
        id14 == [k \in 1..WaveSamples |-> IF d14[k] THEN i_out[k] ELSE 0]
        id23 == [k \in 1..WaveSamples |-> IF d23[k] THEN i_out[k] ELSE 0]
    IN  [time |-> WaveAngles, vs |-> SourceVoltage(s), vo |-> vo, i_out |-> i_out,
         id1 |-> id14, id2 |-> id23, id3 |-> id23, id4 |-> id14,
         vd1 |-> vd1, vd2 |-> vd2, vd3 |-> vd3, vd4 |-> vd4,
         vl |-> IF AnySample(i_out) THEN InductorVoltage(s, i_out, AllSamples) ELSE Zeros,
         vr |-> ResistorVoltage(s, i_out)]

\* Every sample taken as conducting: the current function at each angle.
UnmaskedCurrent(s) ==
    [k \in 1..WaveSamples |-> TransientCurrent(s, WaveAngles[k])]

\* The discontinuous branch common to both full-wave classes: current and
\* output voltage over the two conducting masks (the second assignment wins
\* where the masks overlap).
TwoPulseCurrent(s) ==
    [k \in 1..WaveSamples |->
        IF Within(WaveAngles[k], s.alpha + 180, s.beta + 180)
        THEN CurrentFunction(s, WaveAngles[k] - 180)
        ELSE IF Within(WaveAngles[k], s.alpha, s.beta)
        THEN CurrentFunction(s, WaveAngles[k])
        ELSE 0]

TwoPulseVoltage(s) ==
    LET vs == SourceVoltage(s)
    IN  [k \in 1..WaveSamples |->
            IF Within(WaveAngles[k], s.alpha + 180, s.beta + 180) THEN -vs[k]
            ELSE IF Within(WaveAngles[k], s.alpha, s.beta) THEN vs[k]
            ELSE s.Vdc]

\* ControlledFullWaveSolver.generate_waveforms
ControlledFullWaveforms(s) ==
    LET wt == WaveAngles
        vs == SourceVoltage(s)
        m1 == [k \in 1..WaveSamples |-> Within(wt[k], s.alpha, s.beta)]
        m2 == [k \in 1..WaveSamples |-> Within(wt[k], s.alpha + 180, s.beta + 180)]
    IN  IF s.circuit_operates = "False" THEN FlatWaveforms(s)
        ELSE IF s.is_continuous = "True"
        THEN FullWaveSeries(s,
                [k \in 1..WaveSamples |->
                    IF FGe(wt[k], s.alpha) /\ wt[k] < 180 THEN vs[k]
                    ELSE IF FGe(wt[k], s.alpha + 180) /\ wt[k] <= 360 THEN -vs[k]
                    ELSE s.Vdc],
                ContinuousCurrent(s),
                [k \in 1..WaveSamples |-> Mask1(k) /\ vs[k] > 0 /\ FGe(wt[k], s.alpha)],
                [k \in 1..WaveSamples |-> Mask2(k) /\ vs[k] < 0 /\ FGe(wt[k], s.alpha + 180)],
                vs, vs, vs, vs)
        ELSE FullWaveSeries(s, TwoPulseVoltage(s), TwoPulseCurrent(s), m1, m2,
                [k \in 1..WaveSamples |-> IF m1[k] THEN 0 ELSE vs[k]],
                [k \in 1..WaveSamples |-> IF m2[k] THEN 0 ELSE -vs[k]],
                [k \in 1..WaveSamples |-> IF m2[k] THEN 0 ELSE -vs[k]],
                [k \in 1..WaveSamples |-> IF m1[k] THEN 0 ELSE vs[k]])

\* UncontrolledFullWaveSolver.generate_waveforms
UncontrolledFullWaveforms(s) ==
    LET wt == WaveAngles
        vs == SourceVoltage(s)
        m1 == [k \in 1..WaveSamples |-> Within(wt[k], s.alpha, s.beta)]
        m2 == [k \in 1..WaveSamples |-> Within(wt[k], s.alpha + 180, s.beta + 180)]
        v1 == [k \in 1..WaveSamples |-> IF Mask1(k) THEN vs[k] ELSE 0]
        v2 == [k \in 1..WaveSamples |-> IF Mask2(k) THEN vs[k] ELSE 0]
    IN  IF s.is_continuous = "True"
        THEN FullWaveSeries(s,
                [k \in 1..WaveSamples |-> Abs(vs[k])],
                ContinuousCurrent(s),
                [k \in 1..WaveSamples |->
                    (Mask1(k) /\ vs[k] > 0) \/ (Mask2(k) /\ vs[k] < 0)],
                [k \in 1..WaveSamples |->
                    (Mask1(k) /\ vs[k] < 0) \/ (Mask2(k) /\ vs[k] > 0)],
                vs, vs, vs, vs)
        ELSE FullWaveSeries(s, TwoPulseVoltage(s), TwoPulseCurrent(s), m1, m2,
                v2, v1, v1, v2)

\* FreewheelingHalfWaveSolver.generate_waveforms
FreewheelingWaveforms(s) ==
    LET wt == WaveAngles
        vs == SourceVoltage(s)
        first_half == [k \in 1..WaveSamples |-> wt[k] < 180]
        i_out == Array([k \in 1..WaveSamples |-> CurrentFunction(s, wt[k])])
    IN  [time |-> wt, vs |-> vs,
         vo |-> [k \in 1..WaveSamples |-> IF first_half[k] THEN vs[k] ELSE 0],
         vd |-> [k \in 1..WaveSamples |-> IF first_half[k] THEN 0 ELSE vs[k]],
         vd_fw |-> [k \in 1..WaveSamples |-> IF first_half[k] THEN -vs[k] ELSE 0],
         i_out |-> i_out,
         i_source |-> [k \in 1..WaveSamples |-> IF first_half[k] THEN i_out[k] ELSE 0],
         i_fw |-> [k \in 1..WaveSamples |-> IF first_half[k] THEN 0 ELSE i_out[k]],
         vl |-> InductorVoltage(s, i_out, AllSamples),
         vr |-> ResistorVoltage(s, i_out)]

\* self.generate_waveforms() of the class of s.
GenerateWaveforms(s) ==
    CASE s.cls \in {"UHW", "CHW"} -> BaseWaveforms(s)
      [] s.cls = "CFW" -> ControlledFullWaveforms(s)
      [] s.cls = "UFW" -> UncontrolledFullWaveforms(s)
      [] s.cls = "FWHW" -> FreewheelingWaveforms(s)

\* ------------------------------------------------------------------------
\* generate_results and the JSON answer of main.solve
\* ------------------------------------------------------------------------
ResultsOf(s) ==
    [status |-> 200,
     parameters |-> [alpha |-> s.alpha, beta |-> s.beta, A |-> s.A,
                     conducting_angle |-> s.conducting_angle,
                     conducting_time |-> s.conducting_time],
     performance |-> [Iavg |-> s.Iavg, Irms |-> s.Irms, Vavg |-> s.Vavg,
                      Vrms |-> s.Vrms, power_factor |-> s.power_factor,
                      form_factor |-> s.form_factor,
                      ripple_factor |-> s.ripple_factor,
                      efficiency |-> s.efficiency, power |-> s.power],
     waveforms |-> GenerateWaveforms(s)]

\* The call a caller wanting N samples has to make: generate_waveforms takes
\* no argument and main.solve reads no resolution from the request.
Sampled(s, N) == GenerateWaveforms(s)

\* jsonify(solver.solve()), or the exception generate_waveforms raised.
RespondFor(s) ==
    IF GradientRaises(s) THEN [status |-> 500, error |-> "ValueError"]
    ELSE ResultsOf(s)

\* A sampler that folds beta back into one period of the display and keeps
\* the folded value in the instance.
GenerateResultsFolding ==
    /\ pc = "results"
    /\ response' = RespondFor(solver)
    /\ pc' = IF GradientRaises(solver) THEN "raised" ELSE "done"
    /\ solver' = [solver EXCEPT !.beta = IF @ < 0 \/ @ > 360 THEN @ % 360 ELSE @]
    /\ UNCHANGED <<req, asinArgs, fsolveLog, modePath>>
    /\ UNCHANGED others

GenerateResults ==
    /\ pc = "results"
    /\ response' = RespondFor(solver)
    /\ pc' = IF GradientRaises(solver) THEN "raised" ELSE "done"
    /\ UNCHANGED <<req, solver, asinArgs, fsolveLog, modePath>>
    /\ UNCHANGED others

\* The response is sent; the solver instance is garbage and the server
\* waits for the next request.
NextRequest ==
    /\ pc \in {"done", "raised"}
    /\ pc' = "idle"
    /\ req' = NoReq
    /\ solver' = NoSolver
    /\ asinArgs' = <<>>
    /\ fsolveLog' = <<>>
    /\ modePath' = "none"
    /\ response' = NoResp
    /\ UNCHANGED others

\* ------------------------------------------------------------------------
\* Two threads of the server, each running main.solve on its own request
\* ------------------------------------------------------------------------
Workers == {1, 2}

\* No fsolve call has returned yet.
NoRoot == [status |-> "none", x |-> 0]

IdleThread == [pc |-> "idle", req |-> NoReq, ref |-> 0, root |-> NoRoot, response |-> NoResp]

\* The requests the two threads are sent: full-wave controlled with an
\* operating continuous, an operating discontinuous and a not-operating
\* configuration, and a half-wave uncontrolled one.
PairRequest(wt, ct, Vdc, fa) ==
    [wave_type |-> wt, control_type |-> ct, circuit_type |-> "rle",
     Vm |-> 100, f |-> 50, R |-> 10, L |-> 32, Vdc |-> Vdc, firing_angle |-> fa]

PairRequests ==
    {PairRequest("full", "controlled", 0, 0),
     PairRequest("full", "controlled", 0, 60),
     PairRequest("full", "controlled", 50, 0),
     PairRequest("half", "uncontrolled", 50, 60)}

\* A module-level instance every constructor call hands back.
SharedInstance(w) == 1

\* The object a constructor call in thread w returns: a new object, not
\* reachable from any other thread.
NewInstance(w) == w

\* The instance thread w's local variable "solver" refers to.
Mine(w) == heap[thread[w].ref]

\* The variables of the single-request pipeline, which the threads leave alone.
single == <<pc, req, solver, asinArgs, fsolveLog, modePath, response, nlp>>

ThreadReceive(w) ==
    /\ thread[w].pc = "idle"
    /\ \E r \in PairRequests :
          thread' = [thread EXCEPT ![w] = [@ EXCEPT !.pc = "create", !.req = r]]
    /\ UNCHANGED <<heap, single>>

\* A factory that hands back the instance it built last time when the class
\* is the same, without running __init__ again.
ThreadCreateReusing(w) ==
    /\ thread[w].pc = "create"
    /\ heap' = [heap EXCEPT ![NewInstance(w)] =
                   IF @.cls = CreateSolverFor(thread[w].req).cls
                   THEN @ ELSE CreateSolverFor(thread[w].req)]
    /\ thread' = [thread EXCEPT ![w] = [@ EXCEPT !.pc = "turn_on", !.ref = NewInstance(w)]]
    /\ UNCHANGED single

\* create_solver: the constructor runs __init__ on a new object.
ThreadCreate(w) ==
    /\ thread[w].pc = "create"
    /\ heap' = [heap EXCEPT ![NewInstance(w)] = CreateSolverFor(thread[w].req)]
    /\ thread' = [thread EXCEPT ![w] = [@ EXCEPT !.pc = "turn_on", !.ref = NewInstance(w)]]
    /\ UNCHANGED single

ThreadTurnOn(w) ==
    /\ thread[w].pc = "turn_on"
    /\ heap' = [heap EXCEPT ![thread[w].ref] = TurnOnOf(Mine(w))]
    /\ thread' = [thread EXCEPT ![w].pc =
                     IF Mine(w).cls = "CFW" /\ TurnOnOf(Mine(w)).circuit_operates = "False"
                     THEN "results" ELSE "find_A"]
    /\ UNCHANGED single

ThreadFindA(w) ==
    /\ thread[w].pc = "find_A"
    /\ heap' = [heap EXCEPT ![thread[w].ref] = [@ EXCEPT !.A = SolveForA(Mine(w))]]
    /\ thread' = [thread EXCEPT ![w].pc = "find_beta"]
    /\ UNCHANGED single

\* fsolve(equation_for_beta, ...) reads the instance and returns a root.
ThreadFindBeta(w) ==
    /\ thread[w].pc = "find_beta"
    /\ \E o \in FsolveOutcomes(Mine(w)) :
          /\ o.status = "converged"
          /\ heap' = [heap EXCEPT ![thread[w].ref] = [@ EXCEPT !.beta = BetaAfter(Mine(w), o)]]
          /\ thread' = [thread EXCEPT ![w] = [@ EXCEPT !.pc = "classify", !.root = o]]
    /\ UNCHANGED single

ThreadClassify(w) ==
    /\ thread[w].pc = "classify"
    /\ heap' = [heap EXCEPT ![thread[w].ref] = ClassifyOf(Mine(w))]
    /\ thread' = [thread EXCEPT ![w].pc = "metrics"]
    /\ UNCHANGED single

ThreadMetrics(w) ==
    /\ thread[w].pc = "metrics"
    /\ heap' = [heap EXCEPT ![thread[w].ref] =
                   IF Mine(w).is_continuous = "True"
                   THEN ContinuousOf(Mine(w)) ELSE DiscontinuousOf(Mine(w))]
    /\ thread' = [thread EXCEPT ![w].pc = "performance"]
    /\ UNCHANGED single

ThreadPerformance(w) ==
    /\ thread[w].pc = "performance"
    /\ heap' = [heap EXCEPT ![thread[w].ref] = PerformanceOf(Mine(w))]
    /\ thread' = [thread EXCEPT ![w].pc = "results"]
    /\ UNCHANGED single

\* generate_results reads the instance; jsonify sends what it read.
ThreadRespond(w) ==
    /\ thread[w].pc = "results"
    /\ thread' = [thread EXCEPT ![w] = [@ EXCEPT !.pc = "done", !.response = RespondFor(Mine(w))]]
    /\ UNCHANGED <<heap, single>>

\* main.solve returns: its locals are gone, the instance it built is garbage
\* (its memory keeps the old values until an allocation reuses it).
ThreadReturn(w) ==
    /\ thread[w].pc = "done"
    /\ thread' = [thread EXCEPT ![w] = IdleThread]
    /\ UNCHANGED <<heap, single>>

Init ==
    /\ pc = "idle"
    /\ req = NoReq
    /\ solver = NoSolver
    /\ asinArgs = <<>>
    /\ fsolveLog = <<>>
    /\ modePath = "none"
    /\ response = NoResp
    /\ thread = [w \in Workers |-> IdleThread]
    /\ heap = [w \in Workers |-> NoSolver]
    /\ nlp = NoNlp

Next ==
    \/ Receive
    \/ CreateSolver
    \/ TurnOn
    \/ FindA
    \/ FindBeta
    \/ Classify
    \/ DiscontinuousMetrics
    \/ ContinuousMetrics
    \/ FreewheelSolve
    \/ Performance
    \/ GenerateResults
    \/ NextRequest

Spec == Init /\ [][Next]_vars

\* The two threads, interleaved step by step.
NextPair ==
    \E w \in Workers :
        \/ ThreadReceive(w)
        \/ ThreadCreate(w)
        \/ ThreadTurnOn(w)
        \/ ThreadFindA(w)
        \/ ThreadFindBeta(w)
        \/ ThreadClassify(w)
        \/ ThreadMetrics(w)
        \/ ThreadPerformance(w)
        \/ ThreadRespond(w)
        \/ ThreadReturn(w)

SpecPair == Init /\ [][NextPair]_vars

\* ------------------------------------------------------------------------
\* create_solver called on its own, with any wave-type string
\* ------------------------------------------------------------------------
\* Wave types a caller can pass beyond those of WaveTypes: strings that hold
\* "_wave" elsewhere or twice, another letter case, and no string at all
\* (data.get("wave_type") of a body without the key is None).
WaveNames == WaveTypes \cup {"half_wave_wave", "_wavefull", "HALF", Unset}

\* create_solver(wave_type=..., ...): None.replace raises AttributeError;
\* with a class chosen and R = 0 its __init__ raises ZeroDivisionError;
\* otherwise the instance, or None, is returned.
FactoryCall ==
    /\ pc = "idle"
    /\ \E wt \in WaveNames, ct \in ControlTypes, circ \in CircuitTypes,
          Vm \in VmValues, f \in FValues, R \in RValues, L \in LValues,
          Vdc \in VdcValues, fa \in FiringValues :
          LET r == [wave_type |-> wt, control_type |-> ct, circuit_type |-> circ,
                    Vm |-> Vm, f |-> f, R |-> R, L |-> L, Vdc |-> Vdc,
                    firing_angle |-> fa]
          IN  /\ req' = r
              /\ IF wt = Unset
                 THEN /\ solver' = NoSolver
                      /\ response' = [status |-> 500, error |-> "AttributeError"]
                      /\ pc' = "raised"
                 ELSE IF SolverClass(wt, ct, circ = "fwd") # "None" /\ R = 0
                 THEN /\ solver' = NoSolver
                      /\ response' = [status |-> 500, error |-> "ZeroDivisionError"]
                      /\ pc' = "raised"
                 ELSE /\ solver' = CreateSolverFor(r)
                      /\ response' = NoResp
                      /\ pc' = "returned"
    /\ UNCHANGED <<asinArgs, fsolveLog, modePath>>
    /\ UNCHANGED others

\* The caller drops the instance; the next call can be made.
FactoryReturn ==
    /\ pc \in {"returned", "raised"}
    /\ pc' = "idle"
    /\ req' = NoReq
    /\ solver' = NoSolver
    /\ response' = NoResp
    /\ UNCHANGED <<asinArgs, fsolveLog, modePath>>
    /\ UNCHANGED others

NextFactory ==
    \/ FactoryCall
    \/ FactoryReturn

SpecFactory == Init /\ [][NextFactory]_vars

\* ------------------------------------------------------------------------
\* POST /api/solve-with-nlp: api_solve_with_nlp and process_query
\* ------------------------------------------------------------------------
\* JSON values: null, numbers, strings, booleans; an object is a record of
\* them.
JNull    == [t |-> "null"]
JNum(v)  == [t |-> "num", v |-> v]
JStr(v)  == [t |-> "str", v |-> v]
JBool(v) == [t |-> "bool", v |-> v]

\* dict.get(key): None when the key is missing.
Get(params, key) == IF key \in DOMAIN params THEN params[key] ELSE JNull

\* dict.get(key, default)
GetOr(params, key, default) == IF key \in DOMAIN params THEN params[key] ELSE default

\* bool(value) as "not value" and "if value" take it.
Truthy(j) ==
    CASE j.t = "null" -> FALSE
      [] j.t = "bool" -> j.v
      [] j.t = "num"  -> j.v # 0
      [] j.t = "str"  -> j.v # ""

IsText(j, text) == j.t = "str" /\ j.v = text

\* float(value): TypeError for None; a bool is 1.0 or 0.0.
FloatRaises(j) == j.t \notin {"num", "bool"}
Float(j) == IF j.t = "bool" THEN (IF j.v THEN 1 ELSE 0) ELSE j.v

\* str.strip() of the query texts sent.
Strip(text) == IF text \in {"", " "} THEN "" ELSE text

\* The bodies a client posts: text that is not JSON, JSON that is not an
\* object, null, and objects with or without a "query".
Queries == {JNull, JNum(5), JStr(""), JStr(" "), JStr("half wave 50 Hz")}
NlpBodies ==
    {[kind |-> "malformed"], [kind |-> "array"], [kind |-> "null"],
     [kind |-> "object", data |-> <<>>]}
    \cup {[kind |-> "object", data |-> [query |-> q]] : q \in Queries}

\* The reply the prompt asks for when the circuit is supported.
SupportedReply(rt, ct, fwd, V, f, R, L, E, fa) ==
    [supported |-> JBool(TRUE), rectifier_type |-> JStr(rt),
     control_type |-> JStr(ct), freewheeling_diode |-> fwd,
     R_load |-> R, L_load |-> L, E_load |-> E,
     source_voltage_vrms |-> V, source_frequency_hz |-> f,
     firing_angle_alpha |-> fa]

\* Replies of the language model: objects of the supported format with any
\* field null (71 V RMS, 50 Hz, 10 Ohm, 32 mH, 0 or 50 V, 60 degrees),
\* objects of the unsupported format with and without their keys, an object
\* with missing keys, JSON that is not an object and text that is not JSON;
\* an object can come inside a ```json fence.
SupportedReplies ==
    {SupportedReply(rt, ct, fwd, V, f, R, L, E, fa) :
        rt \in {"half_wave", "full_wave"}, ct \in {"controlled", "uncontrolled"},
        fwd \in {JBool(TRUE), JBool(FALSE)},
        V \in {JNum(71), JNull}, f \in {JNum(50), JNull},
        R \in {JNum(10), JNull}, L \in {JNum(32), JNull},
        E \in {JNum(0), JNum(50), JNull}, fa \in {JNum(60), JNull}}
    \cup {SupportedReply("three_phase", "uncontrolled", JBool(FALSE), JNum(71),
                         JNum(50), JNum(10), JNum(32), JNum(0), JNull),
          SupportedReply("full_wave", "uncontrolled", JBool(FALSE), JNum(71),
                         JNum(50), JNum(0), JNum(32), JNum(0), JNum(60))}

UnsupportedReplies ==
    {[supported |-> JBool(FALSE), reason |-> JStr("three-phase")],
     [supported |-> JBool(FALSE)],
     [supported |-> JNull, reason |-> JStr("unclear")],
     <<>>}

PartialReplies ==
    {[supported |-> JBool(TRUE), control_type |-> JStr("uncontrolled"),
      freewheeling_diode |-> JBool(TRUE), R_load |-> JNum(10), L_load |-> JNum(32),
      source_voltage_vrms |-> JNum(71), source_frequency_hz |-> JNum(50)],
     [supported |-> JBool(TRUE), rectifier_type |-> JStr("half_wave"),
      control_type |-> JStr("uncontrolled"), R_load |-> JNum(10),
      L_load |-> JNum(32), E_load |-> JNum(0),
      source_voltage_vrms |-> JNum(71), source_frequency_hz |-> JNum(50)]}

LlmReplies ==
    {[kind |-> "object", fenced |-> FALSE, params |-> p] :
        p \in SupportedReplies \cup UnsupportedReplies \cup PartialReplies}
    \cup {[kind |-> "object", fenced |-> TRUE,
           params |-> [supported |-> JBool(FALSE), reason |-> JStr("three-phase")]],
          [kind |-> "array", fenced |-> FALSE],
          [kind |-> "text", fenced |-> FALSE]}

\* What model.generate_content and response.text can raise: an API error,
\* or an OSError of the connection (EnvironmentError is OSError).
LlmErrors == {"Exception", "EnvironmentError"}

\* The fields process_query requires of a supported reply.
RequiredFields(params) ==
    {"source_voltage_vrms", "source_frequency_hz", "R_load", "L_load"}
    \cup (IF IsText(Get(params, "control_type"), "controlled")
          THEN {"firing_angle_alpha"} ELSE {})
    \cup (IF ~Truthy(Get(params, "freewheeling_diode")) THEN {"E_load"} ELSE {})

Missing(params) == {field \in RequiredFields(params) : Get(params, field).t = "null"}

Returns(result) == [kind |-> "returns", result |-> result]
Raises(exc)     == [kind |-> "raises", exc |-> exc]

\* Vrms * math.sqrt(2)
PeakOf(Vrms) == QuoT(Vrms * 1414, 1000)

\* Section 3 of process_query up to "solver = create_solver(...)": the
\* subscripts raise KeyError, float(None) raises TypeError, None.replace
\* raises AttributeError, __init__ raises ZeroDivisionError when R = 0.
MapAndCreate(params) ==
    IF "rectifier_type" \notin DOMAIN params \/ "control_type" \notin DOMAIN params
    THEN Raises("KeyError")
    ELSE IF \E field \in {"source_voltage_vrms", "source_frequency_hz", "R_load", "L_load"} :
               FloatRaises(params[field])
    THEN Raises("TypeError")
    ELSE IF FloatRaises(GetOr(params, "E_load", JNum(0)))
            \/ FloatRaises(GetOr(params, "firing_angle_alpha", JNum(0)))
    THEN Raises("TypeError")
    ELSE IF params.rectifier_type.t # "str"
    THEN Raises("AttributeError")
    ELSE LET is_fwd == Truthy(GetOr(params, "freewheeling_diode", JBool(FALSE)))
             r == [wave_type |-> params.rectifier_type.v,
                   control_type |-> params.control_type.v,
                   circuit_type |-> IF is_fwd THEN "fwd" ELSE "rle",
                   Vm |-> PeakOf(Float(params.source_voltage_vrms)),
                   f |-> Float(params.source_frequency_hz),
                   R |-> Float(params.R_load), L |-> Float(params.L_load),
                   Vdc |-> Float(GetOr(params, "E_load", JNum(0))),
                   firing_angle |-> Float(GetOr(params, "firing_angle_alpha", JNum(0)))]
             cls == SolverClass(r.wave_type, r.control_type, is_fwd)
         IN  IF cls = "None"
             THEN Returns([supported |-> JBool(FALSE),
                           reason |-> JStr("not supported by any available solver")])
             ELSE IF r.R = 0 THEN Raises("ZeroDivisionError")
             ELSE [kind |-> "solves", request |-> r, solver |-> CreateSolverFor(r)]

\* process_query from the cleaning of the reply text to create_solver.
ProcessReply(reply) ==
    IF reply.kind = "text"
    THEN Returns([supported |-> JBool(FALSE),
                  reason |-> JStr("Could not parse LLM output.")])
    ELSE IF reply.kind = "array" THEN Raises("AttributeError")
    ELSE IF ~Truthy(GetOr(reply.params, "supported", JBool(FALSE)))
    THEN Returns(reply.params)
    ELSE IF Missing(reply.params) # {}
    THEN Returns([supported |-> JBool(FALSE),
                  reason |-> [t |-> "str", v |-> "required values were missing",
                              fields |-> Missing(reply.params)]])
    ELSE MapAndCreate(reply.params)

\* jsonify(result) / the two except clauses of api_solve_with_nlp.
JsonResult(result) == [status |-> 200, kind |-> "json", result |-> result]
JsonError(exc) ==
    [status |-> 500, kind |-> "json", exc |-> exc,
     error |-> IF exc = "EnvironmentError" THEN "str(exc)" ELSE "Internal server error."]

\* What Flask answers for an exception no handler caught, and for the
\* BadRequest request.get_json raises.
Unhandled(exc) == [status |-> 500, kind |-> "html", exc |-> exc, unhandled |-> TRUE]
BadRequest == [status |-> 400, kind |-> "html", exc |-> "BadRequest", unhandled |-> FALSE]

\* api_solve_with_nlp up to the LLM call of process_query: the body is read
\* outside the try block; the query is stripped inside it.
NlpReceive ==
    /\ pc = "idle"
    /\ \E body \in NlpBodies :
          LET query == IF body.kind = "object"
                       THEN GetOr(body.data, "query", JStr("")) ELSE JStr("")
          IN  /\ nlp' = [stage |-> "process", llm_calls |-> 0, body |-> body]
              /\ IF body.kind = "malformed"
                 THEN response' = BadRequest /\ pc' = "replied"
                 ELSE IF body.kind = "array"
                 THEN response' = Unhandled("AttributeError") /\ pc' = "replied"
                 ELSE IF query.t # "str"
                 THEN response' = JsonError("AttributeError") /\ pc' = "replied"
                 ELSE IF Strip(query.v) = ""
                 THEN /\ response' = JsonResult([supported |-> JBool(FALSE),
                                                 reason |-> JStr("Empty query provided.")])
                      /\ pc' = "replied"
                 ELSE response' = response /\ pc' = "nlp_llm"
    /\ UNCHANGED <<req, solver, asinArgs, fsolveLog, modePath, thread, heap>>

\* model.generate_content(...) and the rest of process_query up to
\* solver.solve(): the reply is parsed, checked and mapped.
NlpGenerate ==
    /\ pc = "nlp_llm"
    /\ \/ \E exc \in LlmErrors :
             /\ nlp' = [nlp EXCEPT !.llm_calls = 1, !.reply = [kind |-> "none"]]
             /\ response' = JsonError(exc)
             /\ pc' = "replied"
             /\ UNCHANGED <<req, solver>>
       \/ \E reply \in LlmReplies :
             LET o == ProcessReply(reply)
             IN  /\ nlp' = [stage |-> IF o.kind = "solves" THEN "solve" ELSE "process",
                            llm_calls |-> 1, body |-> nlp.body, reply |-> reply]
                 /\ IF o.kind = "solves"
                    THEN /\ req' = o.request /\ solver' = o.solver
                         /\ response' = response /\ pc' = "turn_on"
                    ELSE /\ UNCHANGED <<req, solver>>
                         /\ response' = IF o.kind = "raises" THEN JsonError(o.exc)
                                        ELSE JsonResult(o.result)
                         /\ pc' = "replied"
    /\ UNCHANGED <<asinArgs, fsolveLog, modePath, thread, heap>>

\* solver.solve() has returned or raised: process_query returns the
\* supported answer, or the except clause answers.
NlpReturn ==
    /\ pc \in {"done", "raised"}
    /\ nlp.stage = "solve"
    /\ response' = IF pc = "done"
                   THEN JsonResult([supported |-> JBool(TRUE), results |-> response,
                                    extracted_params |-> nlp.reply.params])
                   ELSE JsonError(response.error)
    /\ pc' = "replied"
    /\ nlp' = [nlp EXCEPT !.stage = "process"]
    /\ UNCHANGED <<req, solver, asinArgs, fsolveLog, modePath, thread, heap>>

\* The response is sent; the server waits for the next request.
NlpNext ==
    /\ pc = "replied"
    /\ pc' = "idle"
    /\ req' = NoReq
    /\ solver' = NoSolver
    /\ asinArgs' = <<>>
    /\ fsolveLog' = <<>>
    /\ modePath' = "none"
    /\ response' = NoResp
    /\ nlp' = NoNlp
    /\ UNCHANGED <<thread, heap>>

NextNlp ==
    \/ NlpReceive
    \/ NlpGenerate
    \/ TurnOn
    \/ FindA
    \/ FindBeta
    \/ Classify
    \/ DiscontinuousMetrics
    \/ ContinuousMetrics
    \/ FreewheelSolve
    \/ Performance
    \/ GenerateResults
    \/ NlpReturn
    \/ NlpNext

SpecNlp == Init /\ [][NextNlp]_vars

\* ========================================================================
\* Properties of a request's answer
\* ========================================================================
\* solve() returned and main.solve answered 200 with the result dictionary.
Answered == pc = "done" /\ response.status = 200

\* solve() has started work on an instance that operates: metrics are, or
\* are about to be, computed from alpha and beta.
Solved ==
    /\ pc \in {"metrics", "performance", "results", "done"}
    /\ solver.cls # "None"
    /\ modePath # "non_operating"

\* asin(clamp(Vdc/Vm, 0, 1)), degrees, of the request.
MinimumFiringAngle ==
    Arcsin(PyMax(0, PyMin(1000, QuoT(1000 * req.Vdc, req.Vm))))

\* A controlled topology is asked to fire before the minimum firing angle.
FiredTooEarly ==
    /\ pc \notin {"idle", "create"}
    /\ Controlled(solver.cls)
    /\ req.firing_angle < MinimumFiringAngle

\* C1: in a controlled topology, half-wave or full-wave, a firing angle
\* below asin(clamp(Vdc/Vm, 0, 1)) makes solve() return the not-operating
\* result: Iavg = 0, Irms = 0, Vavg = Vdc, form factor 1, ripple factor 0,
\* efficiency 0.
C1_NonOperatingResult ==
    (FiredTooEarly /\ Answered)
        => /\ response.performance.Iavg = 0
           /\ response.performance.Irms = 0
           /\ response.performance.Vavg = req.Vdc
           /\ response.performance.form_factor = 1000
           /\ response.performance.ripple_factor = 0
           /\ response.performance.efficiency = 0

\* C2: in a controlled topology fired before the minimum firing angle,
\* fsolve is called neither for A nor for beta between the check and the
\* returned result.
C2_NoRootFindWhenNonOperating ==
    (FiredTooEarly /\ Answered) => fsolveLog = <<>>

\* C3: a result is returned only when the solve for beta (or the
\* freewheeling two-unknown solve) converged; a call that raised or that
\* ended on an unconverged iterate never leads to a result.
C3_RootFindFailureSurfaces ==
    Answered =>
        \A i \in DOMAIN fsolveLog :
            fsolveLog[i].eq \in {"beta", "AB"} => fsolveLog[i].status = "converged"

\* C4: a request with R <= 0 or f <= 0 is refused while the solver is
\* constructed: no solving step runs and none of Z, theta, tau, wTau is
\* computed.
C4_BadConfigurationRejected ==
    (/\ pc \notin {"idle", "create"}
     /\ solver.cls # "None"
     /\ (req.R <= 0 \/ req.f <= 0))
        => /\ pc = "raised"
           /\ DOMAIN solver \cap {"Z", "theta", "tau", "wTau"} = {}

\* C5: a freewheeling request is served by the freewheeling solver when it
\* is half-wave and uncontrolled, and is refused (no solver, 400) for any
\* other wave or control type; unsupported wave or control types are
\* refused as well.
C5_FreewheelingOnlyHalfUncontrolled ==
    pc \notin {"idle", "create"} =>
        /\ req.circuit_type = "fwd" =>
              IF NormaliseWave(req.wave_type) = Chars("half") /\ req.control_type = "uncontrolled"
              THEN solver.cls = "FWHW"
              ELSE solver.cls = "None" /\ response.status = 400
        /\ (\/ NormaliseWave(req.wave_type) \notin {Chars("half"), Chars("full")}
            \/ req.control_type \notin {"controlled", "uncontrolled"})
              => solver.cls = "None" /\ response.status = 400

\* C6: a full-wave solver, controlled or uncontrolled, is in continuous mode
\* exactly when beta > pi + alpha, and the harmonic-superposition branch
\* computes the metrics exactly when the mode is continuous.
C6_FullWaveModeRule ==
    (Solved /\ solver.cls \in {"UFW", "CFW"})
        => /\ (solver.is_continuous = "True")
                <=> FGt(solver.beta, FAdd(180, solver.alpha))
           /\ pc # "metrics"
                => ((modePath = "harmonic") <=> (solver.is_continuous = "True"))

\* C7: in every solved case 0 < beta - alpha < period (2*pi in the
\* half-wave classes, pi in the full-wave classes), whatever fsolve
\* returned.
C7_ConductionWithinPeriod ==
    Solved =>
        /\ FGt(FSub(solver.beta, solver.alpha), 0)
        /\ FLt(FSub(solver.beta, solver.alpha), Period(solver.cls))

\* A double that is zero or negative (nan is neither).
NotPositive(x) == x # NaN /\ x <= 0

\* The three guarded divisions agree with the solver's fields: each metric
\* is 0 when its denominator is zero or negative.
GuardedMetrics(s) ==
    /\ NotPositive(FMul(SourceRms(s), s.Irms)) => s.power_factor = 0
    /\ NotPositive(s.Vavg) => s.form_factor = 0
    /\ NotPositive(FMul(s.Vrms, s.Irms)) => s.efficiency = 0

\* C8 (as stated): power factor, form factor and efficiency are each 0
\* whenever their denominator (Vs_rms*Irms, Vavg, Vrms*Irms) is zero or
\* negative, in every topology and mode, and computing them raises nothing
\* (a failure comes from before the currents and voltages are computed, or
\* from np.gradient in the sampler afterwards).
C8_GuardsInEveryMode ==
    /\ (pc \in {"results", "done"} /\ solver.cls # "None") => GuardedMetrics(solver)
    /\ pc = "raised" => (modePath = "none" \/ response.error = "ValueError")

\* C8 (amended): the guards hold in every solve that operates (quadrature,
\* harmonic and freewheeling branches); the not-operating branch divides
\* nothing and reports power factor 0, form factor 1 and efficiency 0
\* whatever the sign of Vavg = Vdc; the metric divisions raise nothing (a
\* failure comes from before the currents and voltages are computed, or from
\* np.gradient in the sampler afterwards).
C8_GuardsWhenOperating ==
    /\ (pc \in {"results", "done"} /\ Solved) => GuardedMetrics(solver)
    /\ (pc \in {"results", "done"} /\ modePath = "non_operating")
          => /\ solver.power_factor = 0
             /\ solver.form_factor = 1000
             /\ solver.efficiency = 0
    /\ pc = "raised" => (modePath = "none" \/ response.error = "ValueError")

\* An operating solve is answered with all three denominators at zero.
C8_ZeroDenominatorsAnswered ==
    /\ Answered /\ Solved
    /\ solver.Irms = 0 /\ solver.Vavg = 0
    /\ response.performance.power_factor = 0
    /\ response.performance.form_factor = 0
    /\ response.performance.efficiency = 0

\* C9: whenever Vavg > 0 the form factor is at least 1 and the ripple
\* factor is a real number >= 0 (the radicand form_factor^2 - 1 being
\* clamped to >= 0 before the square root).
C9_RippleFactorReal ==
    (pc \in {"results", "done"} /\ solver.cls # "None" /\ FGt(solver.Vavg, 0))
        => /\ FGe(solver.form_factor, 1000)
           /\ IsNum(solver.ripple_factor)
           /\ solver.ripple_factor >= 0

\* clamp(Vdc/Vm, -1, 1) of the request, scaled by 1000.
ClampedRatio == PyMax(-1000, PyMin(1000, QuoT(1000 * req.Vdc, req.Vm)))

\* C10: np.arcsin is only ever called with a ratio inside [-1, 1], and an
\* uncontrolled solver's alpha is max(0, asin(clamp(Vdc/Vm, -1, 1))), which
\* lies in [0, pi/2] and is 0 whenever Vdc <= 0.
C10_TurnOnAngleClamped ==
    /\ \A i \in DOMAIN asinArgs : asinArgs[i] >= -1000 /\ asinArgs[i] <= 1000
    /\ (pc \notin {"idle", "create", "turn_on"}
        /\ solver.cls \in {"UHW", "UFW"} /\ "alpha" \in DOMAIN solver)
          => /\ solver.alpha = PyMax(0, Arcsin(ClampedRatio))
             /\ solver.alpha >= 0 /\ solver.alpha <= 90
             /\ req.Vdc <= 0 => solver.alpha = 0

\* C11: a freewheeling solve has alpha = 0 from its first statement on and
\* returns beta = pi with a conducting angle of exactly pi, whatever Vdc and
\* firing angle the request carries; it never takes the not-operating branch.
C11_FreewheelingAngles ==
    solver.cls = "FWHW" =>
        /\ pc \in {"fw_solve", "performance", "results", "done"} => solver.alpha = 0
        /\ pc \in {"performance", "results", "done"}
              => /\ solver.beta = 180
                 /\ solver.conducting_angle = 180
                 /\ modePath = "freewheel"
        /\ pc = "done" => /\ response.status = 200
                          /\ response.parameters.alpha = 0
                          /\ response.parameters.beta = 180
                          /\ response.parameters.conducting_angle = 180
        /\ "circuit_operates" \in DOMAIN solver => solver.circuit_operates # "False"

\* A freewheeling request with a non-zero Vdc and firing angle is answered.
C11_FreewheelingAnswered ==
    /\ Answered /\ solver.cls = "FWHW"
    /\ req.Vdc > 0 /\ req.firing_angle > 0
    /\ response.parameters.beta = 180

\* C12: a half-wave solve (uncontrolled, controlled, freewheeling) never
\* sets is_continuous and never computes its metrics in the harmonic
\* branch: they come from the quadrature (or the freewheeling mean) branch.
C12_HalfWaveDiscontinuous ==
    HalfWave(solver.cls) =>
        /\ "is_continuous" \in DOMAIN solver => solver.is_continuous = Unset
        /\ modePath # "harmonic"
        /\ pc \in {"performance", "results", "done"}
              => modePath = (IF solver.cls = "FWHW" THEN "freewheel" ELSE "quadrature")

\* A half-wave solve whose beta lies beyond pi + alpha is answered from the
\* quadrature branch.
C12_LongConductionByQuadrature ==
    /\ Answered /\ solver.cls \in {"UHW", "CHW"}
    /\ solver.beta > 180 + solver.alpha
    /\ modePath = "quadrature"

\* ------------------------------------------------------------------------
\* Requests against each other
\* ------------------------------------------------------------------------
\* What main.solve sends for request r when nothing else runs and fsolve
\* returns o for beta: every step applied in order to a new instance.
AnswerFor(r, o) ==
    LET s0 == TurnOnOf(CreateSolverFor(r))
    IN  IF s0.cls = "CFW" /\ s0.circuit_operates = "False"
        THEN RespondFor(s0)
        ELSE LET s1 == [s0 EXCEPT !.A = SolveForA(s0)]
                 s2 == [s1 EXCEPT !.beta = BetaAfter(s1, o)]
                 s3 == ClassifyOf(s2)
                 s4 == IF s3.is_continuous = "True"
                       THEN ContinuousOf(s3) ELSE DiscontinuousOf(s3)
             IN  RespondFor(PerformanceOf(s4))

\* C13: the same configuration record, solved again by either thread after or
\* during any other requests, goes through the same instance states and is
\* answered with the same result whenever the root finder returned the same
\* root: nothing an earlier invocation left in an instance reaches a later one.
C13_SameRequestSameResult ==
    \A v \in Workers : \A w \in Workers :
        ( /\ thread[v].pc = thread[w].pc
          /\ thread[v].pc \notin {"idle", "create"}
          /\ thread[v].req = thread[w].req
          /\ thread[v].root = thread[w].root )
        => /\ Mine(v) = Mine(w)
           /\ thread[v].response = thread[w].response

\* C13 witness: both threads hold the answer to the same full-wave
\* controlled request (firing angle 60 degrees), solved with the same root.
C13_RepeatedAfterOther ==
    /\ thread[1].pc = "done" /\ thread[2].pc = "done"
    /\ thread[1].req = thread[2].req
    /\ thread[1].root = thread[2].root
    /\ thread[1].root.status = "converged"
    /\ thread[1].response = thread[2].response
    /\ thread[1].response.parameters.alpha = 60

\* C14: whatever the interleaving of the two threads' steps, each request is
\* answered with the result it produces when it runs alone, and the two
\* threads never refer to the same solver instance.
C14_AnswerAsIfAlone ==
    /\ \A w \in Workers :
          thread[w].pc = "done"
              => thread[w].response = AnswerFor(thread[w].req, thread[w].root)
    /\ \A v \in Workers : \A w \in Workers :
          (v # w /\ thread[v].ref # 0) => thread[v].ref # thread[w].ref

\* C14 witness: both threads are in the middle of solving different
\* requests at the same time.
C14_BothSolving ==
    /\ thread[1].pc = "metrics" /\ thread[2].pc = "find_beta"
    /\ thread[1].req # thread[2].req
    /\ Mine(1).cls = "CFW" /\ Mine(2).cls = "CFW"
    /\ Mine(1).is_continuous = "True"

\* solver.solve() on instance s0 when the root finders return A, B and beta
\* is answered with response r: each step's instance is named in turn.
SolvesTo(s0, A, B, beta, r) ==
    \A s1 \in {TurnOnOf(s0)} :
        IF s1.cls = "FWHW"
        THEN \A s2 \in {FreewheelOf(s1, [status |-> "converged", A |-> A, B |-> B])} :
             \A s3 \in {PerformanceOf(s2)} : r = ResultsOf(s3)
        ELSE IF s1.cls = "CFW" /\ s1.circuit_operates = "False"
        THEN r = ResultsOf(s1)
        ELSE \A s2 \in {ClassifyOf([s1 EXCEPT !.A = A, !.beta = beta])} :
             \A s3 \in {IF s2.is_continuous = "True"
                         THEN ContinuousOf(s2) ELSE DiscontinuousOf(s2)} :
             \A s4 \in {PerformanceOf(s3)} : r = ResultsOf(s4)

\* C15: for a request of an uncontrolled (or freewheeling) topology, the same
\* request with any other firing angle constructs the same solver instance,
\* field by field, and the result sent is the one solve() yields from that
\* instance with the same roots.
C15_FiringAngleIgnored ==
    (solver.cls # "None" /\ req.control_type = "uncontrolled")
    => /\ pc = "turn_on"
             => \A fa \in FiringValues :
                    CreateSolverFor([req EXCEPT !.firing_angle = fa]) = solver
       /\ Answered
             => \A built \in {CreateSolverFor([req EXCEPT !.firing_angle = 0])} :
                    SolvesTo(built, solver.A, solver.constant_B, solver.beta, response)

\* C15 witness: an uncontrolled full-wave request carrying a firing angle of
\* 60 degrees is answered, its turn-on angle set by Vdc alone.
C15_UncontrolledWithFiringAngle ==
    /\ Answered /\ req.control_type = "uncontrolled"
    /\ req.firing_angle = 60 /\ req.Vdc > 0
    /\ solver.cls = "UFW" /\ solver.alpha > 0

\* A half-wave uncontrolled request with a pure resistive load and a live
\* source: L = 0, Vdc = 0, R > 0, Vm > 0, f > 0.
PureResistiveHalfWave ==
    /\ req.wave_type \in {"half", "half_wave"}
    /\ req.control_type = "uncontrolled" /\ req.circuit_type = "rle"
    /\ req.L = 0 /\ req.Vdc = 0 /\ req.R > 0 /\ req.Vm > 0 /\ req.f > 0

\* C16: once main.solve has finished with a pure resistive half-wave
\* uncontrolled request, it has sent a result (not an error) with alpha = 0,
\* Iavg = Vm/(pi R) and Irms = Vm/(2 R), to within one tenth of an ampere.
C16_PureResistiveResult ==
    (pc \in {"done", "raised"} /\ PureResistiveHalfWave)
    => /\ response.status = 200
       /\ response.parameters.alpha = 0
       /\ Abs(response.performance.Iavg - (10 * req.Vm * 1000) \div (3142 * req.R)) <= 1
       /\ Abs(response.performance.Irms - (10 * req.Vm) \div (2 * req.R)) <= 1

\* ------------------------------------------------------------------------
\* The sampled waveforms
\* ------------------------------------------------------------------------
\* Resolutions a caller may want: the default and twice the default.
Resolutions == {WaveSamples, 2 * WaveSamples}

\* C17: for each resolution N the caller chooses, every waveform series of
\* the result holds exactly N samples.
C17_ChosenResolution ==
    Answered =>
        \A N \in Resolutions :
            \A key \in DOMAIN Sampled(solver, N) : Len(Sampled(solver, N)[key]) = N

\* C18: the step that samples the waveforms and builds the result leaves the
\* solver instance as it found it, and sampling the instance again afterwards
\* gives the sequence that was sent.
C18_SamplingOnlyReads ==
    [][pc = "results" =>
          /\ solver' = solver
          /\ pc' = "done" => response'.waveforms = GenerateWaveforms(solver')]_vars

\* C18 witness: a result has been sent whose sampled current is not flat and
\* whose turn-off angle lies beyond the sampled period.
C18_SampledOnce ==
    /\ Answered
    /\ solver.beta > 360
    /\ \E k \in 1..WaveSamples : response.waveforms.i_out[k] # 0
    /\ response.waveforms = GenerateWaveforms(solver)

\* The angle of sample k lies in no conduction interval of the solved state:
\* [alpha, beta] for the half-wave classes, [alpha, beta] and its copy half
\* a period later for the full-wave classes in discontinuous mode; in
\* continuous mode no sample is outside, when not operating every sample is.
OutsideConduction(s, k) ==
    IF s.cls = "CFW" /\ s.circuit_operates = "False" THEN TRUE
    ELSE IF s.cls \in {"CFW", "UFW"} /\ s.is_continuous = "True" THEN FALSE
    ELSE IF s.cls \in {"CFW", "UFW"}
    THEN /\ ~Within(WaveAngles[k], s.alpha, s.beta)
         /\ ~Within(WaveAngles[k], s.alpha + 180, s.beta + 180)
    ELSE ~Within(WaveAngles[k], s.alpha, s.beta)

\* The two statements about the samples of a result sent for instance s.
CurrentZeroOutside(s, w) ==
    /\ \A k \in 1..WaveSamples : OutsideConduction(s, k) => w.i_out[k] = 0
    /\ (s.cls = "CFW" /\ s.circuit_operates = "False")
          => \A k \in 1..WaveSamples : w.i_out[k] = 0 /\ w.vo[k] = s.Vdc

\* C19 as stated: in every result, of every topology, the sampled load
\* current is zero at each sample outside the conduction interval(s), and a
\* not-operating result has zero current and vo = Vdc at every sample.
C19_ZeroOutsideConduction ==
    Answered => CurrentZeroOutside(solver, response.waveforms)

\* C19 amended: the same for every topology but the freewheeling one, whose
\* load current keeps flowing through the freewheeling diode after beta = pi.
C19_ZeroOutsideUnlessFreewheeling ==
    (Answered /\ solver.cls # "FWHW") => CurrentZeroOutside(solver, response.waveforms)

\* C19 witness: a discontinuous full-wave controlled result with a sample
\* carrying current inside the second conduction interval and a sample
\* outside both intervals.
C19_GapBetweenPulses ==
    /\ Answered /\ solver.cls = "CFW" /\ modePath = "quadrature"
    /\ solver.beta > solver.alpha
    /\ \E k \in 1..WaveSamples :
          /\ Within(WaveAngles[k], solver.alpha + 180, solver.beta + 180)
          /\ response.waveforms.i_out[k] # 0
    /\ \E k \in 1..WaveSamples :
          /\ OutsideConduction(solver, k)
          /\ TransientCurrent(solver, WaveAngles[k]) # 0
          /\ response.waveforms.i_out[k] = 0

\* C20: after the continuous branch has run, Vavg is (2 Vm / pi) cos(alpha)
\* in the controlled full-wave solver and 2 Vm / pi in the uncontrolled one,
\* Iavg is (Vavg - Vdc) / R in both, and the result sent carries them.
C20_ContinuousAverages ==
    modePath = "harmonic" =>
        /\ solver.cls \in {"CFW", "UFW"}
        /\ solver.Vavg = (IF solver.cls = "CFW"
                          THEN QuoT(2 * solver.Vm * Cos(solver.alpha), 3142)
                          ELSE QuoT(2000 * solver.Vm, 3142))
        /\ solver.Iavg = QuoT(10 * (solver.Vavg - solver.Vdc), solver.R)
        /\ Answered => /\ response.performance.Vavg = solver.Vavg
                       /\ response.performance.Iavg = solver.Iavg

\* C20 witness: a continuous controlled result with a delayed firing angle
\* next to which the uncontrolled value 2 Vm / pi would be different.
C20_ContinuousDelayedFiring ==
    /\ Answered /\ modePath = "harmonic" /\ solver.cls = "CFW"
    /\ solver.alpha > 0 /\ solver.Vdc # 0
    /\ solver.Vavg # QuoT(2000 * solver.Vm, 3142)

\* C21: create_solver takes the underscored and the plain wave types alike:
\* for every control type, freewheeling flag and parameter set, 'half_wave'
\* gives the instance 'half' gives and 'full_wave' the instance 'full'
\* gives; any wave type or control type outside these makes it return None.
C21_WaveTypeAliases ==
    pc \in {"returned", "raised"} =>
        /\ (pc = "returned" /\ req.wave_type = "half_wave")
              => solver = CreateSolverFor([req EXCEPT !.wave_type = "half"])
        /\ (pc = "returned" /\ req.wave_type = "full_wave")
              => solver = CreateSolverFor([req EXCEPT !.wave_type = "full"])
        /\ (\/ req.wave_type \notin {"half", "half_wave", "full", "full_wave"}
            \/ req.control_type \notin {"controlled", "uncontrolled"})
              => pc = "returned" /\ solver = NoSolver

\* The value the last fsolve(equation_for_beta, ...) call returned, when the
\* solver in hand took its beta from one.
BetaRootKnown ==
    /\ pc \in {"classify", "metrics", "performance", "results", "done"}
    /\ solver.cls \in {"UHW", "CHW", "UFW", "CFW"}
    /\ fsolveLog # <<>>
    /\ fsolveLog[Len(fsolveLog)].eq = "beta"
    /\ fsolveLog[Len(fsolveLog)].status # "raised"

BetaRoot == fsolveLog[Len(fsolveLog)].x

\* C22: when the value fsolve returns for the turn-off angle is below
\* alpha, exactly one period of the topology is added to it (2*pi in the
\* half-wave solvers, pi in the full-wave solvers); when it is not below
\* alpha, beta is that value unchanged.
C22_OnePeriodWrap ==
    BetaRootKnown =>
        IF BetaRoot < solver.alpha
        THEN solver.beta = BetaRoot + (IF solver.cls \in {"UHW", "CHW"} THEN 360 ELSE 180)
        ELSE solver.beta = BetaRoot

\* C22 witness: both full-wave solvers and a half-wave solver answered
\* after a returned value below alpha, and one answered after a value not
\* below alpha; here a full-wave result whose value was below alpha by more
\* than nothing and whose beta is the value plus pi.
C22_FullWaveWrapped ==
    /\ BetaRootKnown /\ pc = "done" /\ response.status = 200
    /\ solver.cls = "CFW"
    /\ BetaRoot < solver.alpha
    /\ solver.beta = BetaRoot + 180

\* C23: the discontinuous branch integrates the output voltage piecewise
\* over exactly one period [0, P]: Vdc on [0, alpha], Vm sin on
\* [alpha, beta], Vdc on [beta, P], with 0 <= alpha <= beta <= P, so that
\* the three regions partition the period and none is reversed or overlaps
\* another.
C23_RegionsPartitionPeriod ==
    (pc = "performance" /\ modePath = "quadrature" /\ solver.cls # "FWHW")
        => /\ solver.Vavg = DiscontinuousOf(solver).Vavg
           /\ solver.Vrms = DiscontinuousOf(solver).Vrms
           /\ 0 <= solver.alpha
           /\ solver.alpha <= solver.beta
           /\ solver.beta <= Period(solver.cls)

\* The conducting angle and time of instance s obey the two formulas.
AngleAndTime(s) ==
    /\ s.conducting_angle = s.beta - s.alpha
    /\ s.conducting_time = NpDiv(1000, MilliRad(s.conducting_angle), s.w)

\* The instance has its conducting angle and time: solve() is past them.
TimesSet ==
    /\ pc \in {"metrics", "performance", "results", "done"}
    /\ solver.cls # "None"
    /\ pc = "done" => response.status = 200

C24_AngleAndTimeAtFrequency ==
    TimesSet =>
        /\ solver.conducting_angle = solver.beta - solver.alpha
        /\ solver.w # 0 => AngleAndTime(solver)
        /\ (solver.cls = "CFW" /\ solver.circuit_operates = "False")
              => /\ solver.beta = solver.alpha
                 /\ solver.conducting_angle = 0 /\ solver.conducting_time = 0
        /\ Answered
              => /\ response.parameters.alpha = solver.alpha
                 /\ response.parameters.beta = solver.beta
                 /\ response.parameters.conducting_angle = solver.conducting_angle
                 /\ response.parameters.conducting_time = solver.conducting_time

\* The posted query reached process_query as text that is not blank.
QueryNonEmpty ==
    /\ nlp.body.kind = "object"
    /\ "query" \in DOMAIN nlp.body.data
    /\ nlp.body.data.query.t = "str"
    /\ nlp.body.data.query.v \notin {"", " "}

\* The reply parses as a JSON object, is marked supported and has every
\* field non-null that the statement of C25 requires of its topology.
ChecksPass(reply) ==
    /\ reply.kind = "object"
    /\ "supported" \in DOMAIN reply.params
    /\ reply.params.supported.t = "bool" /\ reply.params.supported.v
    /\ \A field \in {"source_voltage_vrms", "source_frequency_hz", "R_load", "L_load"} :
          Get(reply.params, field).t # "null"
    /\ IsText(Get(reply.params, "control_type"), "controlled")
          => Get(reply.params, "firing_angle_alpha").t # "null"
    /\ ~(Get(reply.params, "freewheeling_diode").t = "bool"
         /\ Get(reply.params, "freewheeling_diode").v)
          => Get(reply.params, "E_load").t # "null"

\* process_query has returned or raised, having received a reply.
Replied == pc = "replied" /\ "reply" \in DOMAIN nlp /\ nlp.reply.kind # "none"

\* C25: process_query constructs and runs a solver only after, in this
\* order, the query was found non-empty (no LLM call is made otherwise), the
\* LLM reply parsed as JSON, the reply was marked supported and every
\* required field was non-null; in every other case it returns
\* supported = false with a reason and no solver is created.
C25_SolverOnlyAfterChecks ==
    nlp.stage # "none" =>
        /\ nlp.llm_calls > 0 => QueryNonEmpty
        /\ solver # NoSolver => (nlp.llm_calls = 1 /\ "reply" \in DOMAIN nlp
                                 /\ ChecksPass(nlp.reply))
        /\ (Replied /\ ~ChecksPass(nlp.reply))
              => /\ solver = NoSolver
                 /\ response.status = 200
                 /\ "supported" \in DOMAIN response.result
                 /\ response.result.supported.t = "bool"
                 /\ ~response.result.supported.v
                 /\ "reason" \in DOMAIN response.result

\* The reply leaves null a field its topology does not require.
OptionalFieldNull(reply) ==
    \/ /\ ~IsText(Get(reply.params, "control_type"), "controlled")
       /\ "firing_angle_alpha" \in DOMAIN reply.params
       /\ reply.params.firing_angle_alpha.t = "null"
    \/ /\ Truthy(Get(reply.params, "freewheeling_diode"))
       /\ "E_load" \in DOMAIN reply.params
       /\ reply.params.E_load.t = "null"

\* C26: a supported reply that passes the required-field check with a field
\* null that its topology does not require (firing_angle_alpha of an
\* uncontrolled circuit, E_load of a freewheeling circuit) causes no
\* failure: process_query reaches the solver and returns supported = true
\* with results.
C26_OptionalFieldMayBeNull ==
    (/\ Replied /\ ChecksPass(nlp.reply) /\ OptionalFieldNull(nlp.reply)
     /\ \/ IsText(Get(nlp.reply.params, "rectifier_type"), "half_wave")
        \/ IsText(Get(nlp.reply.params, "rectifier_type"), "full_wave")
     /\ \/ IsText(Get(nlp.reply.params, "control_type"), "controlled")
        \/ IsText(Get(nlp.reply.params, "control_type"), "uncontrolled"))
        => /\ response.status = 200
           /\ response.result.supported = JBool(TRUE)
           /\ "results" \in DOMAIN response.result

\* C27: every failure while POST /api/solve-with-nlp is handled ends in a
\* JSON error response with status 500, never in an unhandled exception: an
\* EnvironmentError is reported with its own message, any other exception
\* with 'Internal server error.', and a result process_query returns is
\* sent unchanged.
C27_FailuresAreJson500 ==
    pc = "replied" =>
        /\ response.kind = "json"
        /\ response.status \in {200, 500}
        /\ response.status = 500
              => response.error = (IF response.exc = "EnvironmentError"
                                   THEN "str(exc)" ELSE "Internal server error.")
        /\ (response.status = 200 /\ Replied /\ solver = NoSolver)
              => response.result = ProcessReply(nlp.reply).result
        /\ (response.status = 200 /\ solver # NoSolver)
              => response.result.results = ResultsOf(solver)

\* C28: in the waveforms of an operating full-wave circuit, at every sample
\* id1 = id4 and id2 = id3, at most one diode pair carries current, D1/D4
\* carry current only in the first half-cycle (0 <= wt < pi) and D2/D3 only
\* in the second (pi <= wt <= 2 pi), in the continuous and in the
\* discontinuous mode.
C28_DiodePairsByHalfCycle ==
    (Answered /\ solver.cls \in {"UFW", "CFW"} /\ modePath # "non_operating")
        => \A k \in 1..WaveSamples :
              LET w == response.waveforms
              IN  /\ w.id1[k] = w.id4[k]
                  /\ w.id2[k] = w.id3[k]
                  /\ ~(w.id1[k] # 0 /\ w.id2[k] # 0)
                  /\ w.id1[k] # 0 => (w.time[k] >= 0 /\ w.time[k] < 180)
                  /\ w.id2[k] # 0 => (w.time[k] >= 180 /\ w.time[k] <= 360)

\* The series a consumer of the full-wave result reads.
FullWaveKeys ==
    {"time", "vs", "vo", "i_out", "id1", "id2", "id3", "id4",
     "vd1", "vd2", "vd3", "vd4", "vl", "vr"}

\* C29: for a given topology the set of waveform series in the result is
\* the same in every outcome (NonOperating, discontinuous, continuous): the
\* controlled full-wave result has i_out, id1..id4, vd1..vd4, vl, vr, vo, vs
\* and time whatever the outcome, and the other topologies one key set each.
C29_SameSeriesInEveryOutcome ==
    Answered =>
        DOMAIN response.waveforms =
            (CASE solver.cls \in {"CFW", "UFW"} -> FullWaveKeys
               [] solver.cls = "FWHW" -> DOMAIN FreewheelingWaveforms(solver)
               [] OTHER -> DOMAIN BaseWaveforms(solver))

\* C30: the freewheeling solver always works with Vdc = 0: whatever Vdc the
\* request carries, the Vdc field of the instance is 0, the same request
\* with any other Vdc constructs the same instance, and the result sent is
\* the one solve() yields for the request with any other Vdc and the same
\* roots.
C30_FreewheelingIgnoresVdc ==
    solver.cls = "FWHW" =>
        /\ solver.Vdc = 0
        /\ pc = "turn_on"
              => \A Vdc \in VdcValues :
                     CreateSolverFor([req EXCEPT !.Vdc = Vdc]) = solver
        /\ Answered
              => \A Vdc \in VdcValues \ {req.Vdc} :
                 \A built \in {CreateSolverFor([req EXCEPT !.Vdc = Vdc])} :
                     SolvesTo(built, solver.A, solver.constant_B, solver.beta, response)

\* C30 witness: a freewheeling request carrying Vdc = 150 V is answered with
\* a current, its instance holding Vdc = 0.
C30_FreewheelingWithVdc ==
    /\ Answered /\ solver.cls = "FWHW"
    /\ req.Vdc = 150 /\ solver.Vdc = 0
    /\ response.performance.Iavg > 0

====
